---- MODULE Spec2Model ----
(***************************************************************************)
(* Deep-analysis caching, deduplication and resilient invocation of the    *)
(* FortuneTeller server (src/server/ai.py, src/server/routes.py,           *)
(* src/server/storage.py).                                                 *)
(*                                                                         *)
(* Nine specifications share this module:                                  *)
(*   SpecInvoker  one run of ai.generate_deep_analysis, i.e. the retry     *)
(*                loop of ai._call_deep_model against an upstream that     *)
(*                answers every POST with an arbitrary outcome;            *)
(*   Spec         the request handlers and detached tasks of routes.py     *)
(*                interleaved on the single asyncio scheduler: one action  *)
(*                is the code a coroutine runs between two awaits;         *)
(*   SpecShare    share creation, backfill and the on-demand endpoint of   *)
(*                routes.py on a storage that may be unconfigured or may   *)
(*                hold a record of an earlier process;                     *)
(*   SpecStorage  the methods of PostgresShareStorage and                  *)
(*                FirebaseShareStorage, each call one atomic step;         *)
(*   SpecBackends the same calls made on both storages side by side;       *)
(*   SpecEnv      get_share_storage and the selection of the backend from  *)
(*                the environment, PostgresShareStorage.__init__ included; *)
(*   SpecFaults   the coroutines of routes.py on a storage whose calls can *)
(*                raise;                                                   *)
(*   SpecInvokerLive  SpecInvoker with the fairness of the event loop;     *)
(*   SpecPure     _fortunes_signature and the visualization codec called   *)
(*                on their own with arguments of any shape.                *)
(*                                                                         *)
(* Python values are records tagged by the field py, so that None, str and *)
(* dict values can be compared with each other.  A str is a sequence of    *)
(* tokens; the token MARK stands for the two characters that the prewarm   *)
(* looks for in a result (routes.py:106) and that the fallback message of  *)
(* generate_deep_analysis contains (ai.py:174).                            *)
(***************************************************************************)
EXTENDS Integers, Sequences, FiniteSets, TLC

VARIABLES
    \* ---- ai._call_deep_model / ai.generate_deep_analysis (SpecInvoker)
    dm_pc,          \* position: "post", "sleep", "returned", "done", "unused"
    display_name,   \* argument display_name
    attempt,        \* loop variable attempt, 1..max_attempts
    err,            \* local err after the try block of the current attempt
    is_retriable,   \* local is_retriable of the current attempt
    dm_ret,         \* value returned by _call_deep_model
    gda_ret,        \* value returned by generate_deep_analysis
    post_calls,     \* outcomes of the httpx POSTs made so far, in order
    sleep_calls,    \* arguments of the asyncio.sleep calls made so far
    user_msg,       \* argument user_msg
    mm_ret,         \* outcome of generate_multi_model_analysis
    \* ---- routes.py (Spec)
    now,                    \* time.time()
    AI_TOKEN,               \* config.AI_TOKEN is set
    storage_available,      \* get_share_storage().is_available()
    L2_PREWARM_CACHE,       \* dict in insertion order: Seq of [key, analysis, ts]
    L2_PREWARM_INFLIGHT,    \* set of signatures
    tasks,                  \* coroutines: requests and detached tasks
    shares,                 \* the share storage: share_id -> document
    take_log,               \* history: what each take of create_share saw and returned
    io_log,                 \* history: storage and generation calls, by coroutine
    last_evicted,           \* history: entries the latest gc pass dropped for capacity
    \* ---- storage.py (SpecStorage)
    storage_backend,        \* class of the storage: "postgres", "firebase" or "both"
    pg_rows,                \* table shares: share_id -> jsonb value of column data
    fs_docs,                \* Firestore collection fortunes: share_id -> document
    st_call,                \* the latest call of a storage method and its outcome
    st_created,             \* history: share_id -> data of its create_share, until updated
    \* ---- storage.py, backend selection (SpecEnv)
    os_environ,             \* SHARE_STORAGE_BACKEND and SHARE_DATABASE_URL
    pg_server,              \* how the PostgreSQL server answers _ensure_table
    _share_storage,         \* module global _share_storage
    env_call,               \* the latest call of get_share_storage / reset and its outcome
    \* ---- functions of routes.py called on their own (SpecPure)
    fn_call                 \* the latest call: function, arguments and result

invokerVars == <<dm_pc, display_name, attempt, err, is_retriable, dm_ret,
                 gda_ret, post_calls, sleep_calls, user_msg, mm_ret>>
routeVars == <<now, AI_TOKEN, storage_available, L2_PREWARM_CACHE,
               L2_PREWARM_INFLIGHT, tasks, shares, take_log, io_log,
               last_evicted>>
storageVars == <<storage_backend, pg_rows, fs_docs, st_call, st_created>>
envVars == <<os_environ, pg_server, _share_storage, env_call>>
vars == <<invokerVars, routeVars, storageVars, envVars, fn_call>>

(***************************************************************************)
(* Python values                                                           *)
(***************************************************************************)
None == [py |-> "None"]
Missing == [py |-> "missing"]           \* a key a dict does not have
Str(toks) == [py |-> "str", s |-> toks]
EmptyStr == Str(<<>>)

SP == " "                               \* a whitespace character
MARK == "<shi-bai>"                     \* the failure marker of routes.py:106

\* truth value of an Optional[str]
StrTruthy(v) == v.py = "str" /\ v.s # <<>>

\* substring test  MARK in text
ContainsMark(v) == \E i \in 1..Len(v.s) : v.s[i] = MARK

RECURSIVE LStrip(_)
LStrip(toks) ==
    IF toks # <<>> /\ Head(toks) = SP THEN LStrip(Tail(toks)) ELSE toks

RECURSIVE RStrip(_)
RStrip(toks) ==
    IF toks # <<>> /\ toks[Len(toks)] = SP
    THEN RStrip(SubSeq(toks, 1, Len(toks) - 1))
    ELSE toks

\* str.strip()
Strip(v) == Str(RStrip(LStrip(v.s)))

\* a short reading as call_model returns it (ai.py:83-89)
Reading(face, career, blessing, source) ==
    [py |-> "dict", face |-> face, career |-> career, blessing |-> blessing,
     source |-> source]

RA == Reading("A", "B", "C", "ai")
RB == Reading("A", "B", "D", "ai")
RL == Reading("L", "M", "N", "fallback")    \* a legacy single-model fortune

\* a fortunes dict: the keys gemini and grok, each possibly missing
Fortunes(gemini, grok) == [py |-> "dict", gemini |-> gemini, grok |-> grok]

\* dict.get(key) of a fortunes dict
DictGet(d, key) ==
    LET v == IF key = "grok" THEN d.grok ELSE d.gemini
    IN  IF v = Missing THEN None ELSE v

\* truth value of a dict | None
DictTruthy(d) == d.py = "dict" /\ (d.grok # Missing \/ d.gemini # Missing)

(***************************************************************************)
(* ai.py                                                                   *)
(***************************************************************************)
max_attempts == 4
base_delay == 1

FALLBACK_TEXT == Str(<<"deep-analysis-generation", MARK, "please-retry-later">>)

\* what choices[0].message.content of a 200 response may hold
ProviderContents ==
    { EmptyStr, Str(<<SP>>), Str(<<SP, "X", SP>>), Str(<<"Z", MARK>>) }

StatusCodes == {400, 404, 408, 409, 429, 500, 501, 502, 503, 504}

DisplayNames == {"Gemini", "DeepSeek"}

\* what one POST of _call_deep_model can end in
PostOutcomes ==
    [kind : {"ok"}, content : ProviderContents]
        \cup { [kind |-> "timeout"], [kind |-> "network"], [kind |-> "malformed"] }
        \cup [kind : {"status"}, code : StatusCodes]

NoErr == [type |-> "none"]

\* the exception bound to err by lines 136-148 for an outcome without text
ErrOf(o) ==
    CASE o.kind = "ok"        -> [type |-> "RuntimeError", msg |-> "empty response"]
      [] o.kind = "timeout"   -> [type |-> "TimeoutException"]
      [] o.kind = "network"   -> [type |-> "NetworkError"]
      [] o.kind = "status"    -> [type |-> "HTTPStatusError", status_code |-> o.code]
      [] o.kind = "malformed" -> [type |-> "ValueError"]

RetriableStatus == {408, 409, 429, 500, 502, 503, 504}

\* IsRetriable without the timeout and connectivity classes
IsRetriable_StatusOnly(e) ==
    e.type = "HTTPStatusError" /\ e.status_code \in RetriableStatus

\* IsRetriable with every HTTP status error retried
IsRetriable_AnyStatus(e) ==
    \/ e.type \in {"TimeoutException", "NetworkError"}
    \/ e.type = "HTTPStatusError"

\* lines 150-153
IsRetriable(e) ==
    \/ e.type \in {"TimeoutException", "NetworkError"}
    \/ e.type = "HTTPStatusError" /\ e.status_code \in RetriableStatus

RECURSIVE Pow2(_)
Pow2(n) == IF n = 0 THEN 1 ELSE 2 * Pow2(n - 1)

\* line 156
Delay(a) == base_delay * Pow2(a - 1)

\* the text of a response, lines 136-142
ResponseText(o) == IF o.kind = "ok" THEN Strip(o.content) ELSE EmptyStr

\* GenerateDeepAnalysisValue without the fallback message
GenerateDeepAnalysisValue_NoFallback(text) == text

\* line 174
GenerateDeepAnalysisValue(text) == IF StrTruthy(text) THEN text ELSE FALLBACK_TEXT

\* lines 95-105
_build_deep_context(fortunes) ==
    LET f == DictGet(fortunes, "grok")
    IN  IF f.py = "dict"
        THEN Str(<<"quick-result", f.face, f.career, f.blessing>>)
        ELSE Str(<<"no-previous-result">>)

\* line 172
UserMsg(fortunes) == Str(<<"expand-on">> \o _build_deep_context(fortunes).s)

\* fortunes generate_deep_analysis is called with
DeepFortunes == { Fortunes(Missing, RA), Fortunes(RL, None), Fortunes(Missing, Missing) }

InvokerInit ==
    /\ dm_pc = "post"
    /\ display_name \in DisplayNames
    /\ attempt = 1
    /\ err = NoErr
    /\ is_retriable = FALSE
    /\ dm_ret = None
    /\ gda_ret = None
    /\ post_calls = <<>>
    /\ sleep_calls = <<>>
    /\ user_msg \in { UserMsg(f) : f \in DeepFortunes }
    /\ mm_ret = None

\* Retries with a sleep after the last attempt as well
Retries_PastLast(a, retriable) == a <= max_attempts /\ retriable

\* line 155: a failed attempt a is followed by a sleep and another attempt
Retries(a, retriable) == a < max_attempts /\ retriable

\* one iteration of the loop of _call_deep_model, from the POST to the
\* return or to the await of asyncio.sleep
DeepPost(o) ==
    /\ dm_pc = "post"
    /\ post_calls' = Append(post_calls, o)
    /\ IF StrTruthy(ResponseText(o))
       THEN /\ dm_ret' = <<display_name, ResponseText(o)>>
            /\ dm_pc' = "returned"
            /\ UNCHANGED <<err, is_retriable, sleep_calls>>
       ELSE /\ err' = ErrOf(o)
            /\ is_retriable' = IsRetriable(ErrOf(o))
            /\ IF Retries(attempt, IsRetriable(ErrOf(o)))
               THEN /\ sleep_calls' = Append(sleep_calls, Delay(attempt))
                    /\ dm_pc' = "sleep"
                    /\ UNCHANGED dm_ret
               ELSE /\ dm_ret' = <<display_name, None>>
                    /\ dm_pc' = "returned"
                    /\ UNCHANGED sleep_calls
    /\ UNCHANGED <<fn_call, routeVars, storageVars, envVars, display_name, attempt, gda_ret, user_msg, mm_ret>>

\* asyncio.sleep returns; continue with the next attempt
DeepWake ==
    /\ dm_pc = "sleep"
    /\ attempt' = attempt + 1
    /\ dm_pc' = "post"
    /\ UNCHANGED <<fn_call, routeVars, storageVars, envVars, display_name, err, is_retriable, dm_ret, gda_ret,
                   post_calls, sleep_calls, user_msg, mm_ret>>

\* generate_deep_analysis, which calls with the name Gemini, receives the
\* pair and returns (lines 173-174)
GenerateDeepAnalysisReturn ==
    /\ dm_pc = "returned" /\ display_name = "Gemini"
    /\ gda_ret' = GenerateDeepAnalysisValue(dm_ret[2])
    /\ dm_pc' = "done"
    /\ UNCHANGED <<fn_call, routeVars, storageVars, envVars, display_name, attempt, err, is_retriable, dm_ret,
                   post_calls, sleep_calls, user_msg, mm_ret>>

\* the names config.py binds at module level
ConfigNames ==
    { "AI_API_BASE", "AI_TOKEN", "MODELS", "PIXEL_SIZE", "RESEND_API_KEY",
      "CIRCLE_V2_TOKEN", "CIRCLE_SPACE_IDS", "COMMUNITY_URL", "logger" }

\* an exception leaving a call
Raised(type) == [kind |-> "raised", type |-> type]

\* whether a call ended with an exception
IsRaised(outcome) == "kind" \in DOMAIN outcome

\* the pairs _call_deep_model can return for a provider
DeepModelPairs ==
    { <<n, ResponseText(o)>> : n \in DisplayNames, o \in [kind : {"ok"}, content : ProviderContents] }
        \cup { <<n, None>> : n \in DisplayNames }

\* line 192: the dict built from the gathered pairs, as a set of items
MultiModelValue(results) ==
    { results[i] : i \in { k \in 1..Len(results) : StrTruthy(results[k][2]) } }

\* generate_multi_model_analysis: the list comprehension of lines 185-188
\* looks up config.DEEP_MODELS before any provider coroutine is created;
\* without that name the call ends in AttributeError, with it the gathered
\* pairs are filtered into the returned dict
generate_multi_model_analysis ==
    /\ dm_pc = "post" /\ attempt = 1 /\ post_calls = <<>>
    /\ IF "DEEP_MODELS" \in ConfigNames
       THEN \E a, b \in DeepModelPairs :
                /\ a[1] # b[1]
                /\ mm_ret' = [kind |-> "returned", results |-> <<a, b>>,
                              value |-> MultiModelValue(<<a, b>>)]
       ELSE mm_ret' = Raised("AttributeError")
    /\ dm_pc' = "unused"
    /\ UNCHANGED <<fn_call, routeVars, storageVars, envVars, display_name, attempt, err, is_retriable, dm_ret,
                   gda_ret, post_calls, sleep_calls, user_msg>>

(***************************************************************************)
(* routes.py: fortunes and their signature                                 *)
(***************************************************************************)
\* bounds of the model
MaxTasks == 3       \* coroutines (requests and detached tasks) ever started
MaxTicks == 1       \* advances of the clock

\* routes.py:37
L2_PREWARM_TTL_SEC == 15 * 60
\* routes.py:38 holds 256; the table of the model is scaled down so that
\* more signatures than the table may keep can be stored
L2_PREWARM_MAX_ENTRIES == 1

\* routes.py:41-53; the result is the canonical dict, EmptyCanonical for {}
EmptyCanonical == [py |-> "dict", empty |-> TRUE]

_canonical_fortunes(fortunes) ==
    IF ~DictTruthy(fortunes)
    THEN EmptyCanonical
    ELSE LET grok == DictGet(fortunes, "grok")
         IN  IF grok.py = "dict"
             THEN [py |-> "dict",
                   grok |-> [py |-> "dict", face |-> grok.face,
                             career |-> grok.career, blessing |-> grok.blessing]]
             ELSE EmptyCanonical

\* JsonDumps that writes the face only
JsonDumps_FaceOnly(canonical) ==
    IF canonical = EmptyCanonical
    THEN <<"{", "}">>
    ELSE <<"{", "grok", "{", "face", canonical.grok.face, "}", "}">>

\* json.dumps(canonical, sort_keys=True): the keys in sorted order
JsonDumps(canonical) ==
    IF canonical = EmptyCanonical
    THEN <<"{", "}">>
    ELSE <<"{", "grok", "{", "blessing", canonical.grok.blessing,
           "career", canonical.grok.career, "face", canonical.grok.face,
           "}", "}">>

\* hashlib.sha256(raw).hexdigest(): a never-empty str, taken to be collision free
Sha256Hex(raw) == Str(<<"sha256">> \o raw)

\* routes.py:56-59
_fortunes_signature(fortunes) == Sha256Hex(JsonDumps(_canonical_fortunes(fortunes)))

(***************************************************************************)
(* routes.py: the speculative cache                                        *)
(***************************************************************************)
Entry(key, analysis, ts, src) ==
    [key |-> key, analysis |-> analysis, ts |-> ts, src |-> src]

CacheKeys(cache) == { cache[i].key : i \in 1..Len(cache) }

\* cache[key]; the key is in the table
CacheGet(cache, key) ==
    cache[CHOOSE i \in 1..Len(cache) : cache[i].key = key]

\* CachePop reading the entry without removing it
CachePop_Keep(cache, key) == cache

\* cache.pop(key, None): the table without the key
CachePop(cache, key) == SelectSeq(cache, LAMBDA e : e.key # key)

\* cache[key] = value: a present key keeps its place, a new key goes last
CachePut(cache, e) ==
    IF e.key \in CacheKeys(cache)
    THEN [i \in 1..Len(cache) |-> IF cache[i].key = e.key THEN e ELSE cache[i]]
    ELSE Append(cache, e)

\* DropExpired with the comparison >= in place of >
DropExpired_Inclusive(cache, now_ts) ==
    SelectSeq(cache, LAMBDA e : ~(now_ts - e.ts >= L2_PREWARM_TTL_SEC))

\* routes.py:63-69
DropExpired(cache, now_ts) ==
    SelectSeq(cache, LAMBDA e : ~(now_ts - e.ts > L2_PREWARM_TTL_SEC))

RECURSIVE InsertByTs(_, _)
InsertByTs(sorted, e) ==
    IF sorted = <<>> THEN <<e>>
    ELSE IF sorted[Len(sorted)].ts <= e.ts THEN Append(sorted, e)
    ELSE Append(InsertByTs(SubSeq(sorted, 1, Len(sorted) - 1), e),
                sorted[Len(sorted)])

\* sorted(items, key=ts): stable, equal timestamps keep the table's order
RECURSIVE SortedByTs(_)
SortedByTs(items) ==
    IF items = <<>> THEN <<>>
    ELSE InsertByTs(SortedByTs(SubSeq(items, 1, Len(items) - 1)),
                    items[Len(items)])

\* CapacityVictims of a gc pass without the capacity eviction
CapacityVictims_None(cache) == <<>>

\* the entries by_time[-to_drop:]: the newest instead of the oldest
CapacityVictims_Newest(cache) ==
    IF Len(cache) > L2_PREWARM_MAX_ENTRIES
    THEN SubSeq(SortedByTs(cache), L2_PREWARM_MAX_ENTRIES + 1, Len(cache))
    ELSE <<>>

\* routes.py:71-75, the entries by_time[:to_drop] of a table
CapacityVictims(cache) ==
    IF Len(cache) > L2_PREWARM_MAX_ENTRIES
    THEN SubSeq(SortedByTs(cache), 1, Len(cache) - L2_PREWARM_MAX_ENTRIES)
    ELSE <<>>

\* routes.py:62-75
_gc_l2_prewarm_cache(cache, now_ts) ==
    LET live == DropExpired(cache, now_ts)
        victims == CapacityVictims(live)
        dropped == { victims[i].key : i \in 1..Len(victims) }
    IN  SelectSeq(live, LAMBDA e : e.key \notin dropped)

\* the entries a gc pass drops for capacity (history only)
GcEvicted(cache, now_ts) == CapacityVictims(DropExpired(cache, now_ts))

\* routes.py:78-92: the pair <<returned value, table afterwards>>
_take_prewarmed_l2_analysis(cache, fortunes, now_ts) ==
    LET signature == _fortunes_signature(fortunes)
        collected == _gc_l2_prewarm_cache(cache, now_ts)
    IN  IF ~StrTruthy(signature)
        THEN <<None, cache>>
        ELSE IF signature \notin CacheKeys(collected)
        THEN <<None, collected>>
        ELSE LET entry == CacheGet(collected, signature)
             IN  IF now_ts - entry.ts > L2_PREWARM_TTL_SEC
                 THEN <<None, CachePop(collected, signature)>>
                 ELSE <<entry.analysis, CachePop(collected, signature)>>

(***************************************************************************)
(* routes.py: coroutines                                                   *)
(***************************************************************************)
\* what awaiting ai.generate_deep_analysis can return: the stripped text of
\* a successful provider call, or the fallback message
DeepAnalysisResults ==
    { GenerateDeepAnalysisValue(text) :
        text \in {None} \cup { ResponseText(o) : o \in PostOutcomes } }

\* an await can also end by an exception raised at the suspension point
AwaitOutcomes ==
    [kind : {"returned"}, value : DeepAnalysisResults]
        \cup { [kind |-> "raised"] }

\* grok results of /api/fortune
GrokResults == {RA, RB}

\* bodies of POST /api/share: the fields fortunes and fortune
ShareRequests ==
    { [fortunes |-> Fortunes(None, RA), fortune |-> None],
      [fortunes |-> None, fortune |-> RL],
      [fortunes |-> None, fortune |-> None] }

ShareIds == 0..MaxTasks

Task(kind, pc, fortunes, signature, share_id, analysis, exit) ==
    [kind |-> kind, pc |-> pc, fortunes |-> fortunes, signature |-> signature,
     share_id |-> share_id, analysis |-> analysis, exit |-> exit]

TaskIds == 1..Len(tasks)

\* a share document as create_share builds it (routes.py:328-336)
Doc(fortunes, analysis_l2) ==
    [py |-> "dict", fortunes |-> fortunes, analysis_l2 |-> analysis_l2]

\* routes.py:177-181 (a stored document always has the key fortunes)
_normalize_fortunes_payload(data) ==
    IF DictTruthy(data.fortunes) THEN data.fortunes
    ELSE Fortunes(Missing, Missing)

\* the coroutine is awaiting ai.generate_deep_analysis
Generating(t) == tasks[t].pc = "generating"

RouteInit ==
    /\ now = 0
    /\ AI_TOKEN \in BOOLEAN
    /\ storage_available \in BOOLEAN
    /\ L2_PREWARM_CACHE = <<>>
    /\ L2_PREWARM_INFLIGHT = {}
    /\ tasks = <<>>
    /\ shares = [id \in ShareIds |-> Missing]
    /\ take_log = {}
    /\ io_log = {}
    /\ last_evicted = <<>>

\* the clock advances by the time to live, or by a second more
TickSteps == {L2_PREWARM_TTL_SEC, L2_PREWARM_TTL_SEC + 1}

\* time passes
Tick(d) ==
    /\ now \div L2_PREWARM_TTL_SEC < MaxTicks
    \* time.time() is read only for the timestamp of an entry and for the
    \* ages of the entries, so an advance shows only while there is an entry
    /\ L2_PREWARM_CACHE # <<>>
    /\ now' = now + d
    /\ UNCHANGED <<fn_call, invokerVars, storageVars, envVars, storage_available, io_log, AI_TOKEN, L2_PREWARM_CACHE, L2_PREWARM_INFLIGHT, tasks,
                   shares, take_log, last_evicted>>

\* POST /api/fortune once call_model has returned grok_result
\* (routes.py:222-242): the prewarm is scheduled as a detached task
generate_fortune(grok_result) ==
    /\ AI_TOKEN
    /\ Len(tasks) < MaxTasks
    /\ tasks' = Append(tasks,
            Task("prewarm", "start", Fortunes(Missing, grok_result), None, 0,
                 None, "running"))
    /\ UNCHANGED <<fn_call, invokerVars, storageVars, envVars, storage_available, io_log, now, AI_TOKEN, L2_PREWARM_CACHE, L2_PREWARM_INFLIGHT,
                   shares, take_log, last_evicted>>

\* PrewarmSkips without the look into the in-flight set
PrewarmSkips_NoInflight(token, signature, inflight) ==
    ~token \/ ~StrTruthy(signature)

\* routes.py:96-101: is this call of the prewarm a no-op
PrewarmSkips(token, signature, inflight) ==
    \/ ~token
    \/ ~StrTruthy(signature)
    \/ signature \in inflight

\* _prewarm_l2_from_fortunes from its start to the await (routes.py:96-105)
PrewarmStart(t) ==
    /\ tasks[t].kind = "prewarm" /\ tasks[t].pc = "start"
    /\ LET signature == _fortunes_signature(tasks[t].fortunes)
       IN  IF PrewarmSkips(AI_TOKEN, signature, L2_PREWARM_INFLIGHT)
           THEN /\ tasks' = [tasks EXCEPT ![t].pc = "done", ![t].exit = "skipped"]
                /\ UNCHANGED L2_PREWARM_INFLIGHT
           ELSE /\ L2_PREWARM_INFLIGHT' = L2_PREWARM_INFLIGHT \cup {signature}
                /\ tasks' = [tasks EXCEPT ![t].pc = "generating",
                                          ![t].signature = signature]
    /\ UNCHANGED <<fn_call, invokerVars, storageVars, envVars, storage_available, io_log, now, AI_TOKEN, L2_PREWARM_CACHE, shares, take_log,
                   last_evicted>>

\* routes.py:106: the result is stored
\* Cacheable without the test for the failure marker
Cacheable_AnyText(analysis) == StrTruthy(analysis)

\* line 105: the texts a prewarm stores
Cacheable(analysis) == StrTruthy(analysis) /\ ~ContainsMark(analysis)

\* PrewarmFinally with the discard at the end of the try block, not in finally
PrewarmFinally_TryOnly(inflight, signature, o) ==
    IF o.kind = "returned" /\ Cacheable(o.value) THEN inflight \ {signature}
    ELSE inflight

\* routes.py:112-113: the in-flight set when the try block is left by outcome o
PrewarmFinally(inflight, signature, o) == inflight \ {signature}

\* _prewarm_l2_from_fortunes from the await to its end (routes.py:105-113)
PrewarmFinish(t, o) ==
    /\ tasks[t].kind = "prewarm" /\ Generating(t)
    /\ IF o.kind = "returned" /\ Cacheable(o.value)
       THEN LET stored == CachePut(L2_PREWARM_CACHE,
                                   Entry(tasks[t].signature, o.value, now, t))
            IN  /\ L2_PREWARM_CACHE' = _gc_l2_prewarm_cache(stored, now)
                /\ last_evicted' = GcEvicted(stored, now)
                /\ tasks' = [tasks EXCEPT ![t].pc = "done", ![t].exit = "cached",
                                          ![t].analysis = o.value]
       ELSE /\ tasks' = [tasks EXCEPT ![t].pc = "done",
                            ![t].exit = IF o.kind = "raised" THEN "raised"
                                        ELSE "uncacheable"]
            /\ UNCHANGED <<L2_PREWARM_CACHE, last_evicted>>
    /\ L2_PREWARM_INFLIGHT' =
            PrewarmFinally(L2_PREWARM_INFLIGHT, tasks[t].signature, o)
    /\ UNCHANGED <<fn_call, invokerVars, storageVars, envVars, storage_available, io_log, now, AI_TOKEN, shares, take_log>>

\* uuid.uuid4().hex[:8] (routes.py:318): an id no earlier request drew
FreshShareId ==
    1 + Cardinality({ t \in TaskIds : tasks[t].kind = "create_share" })

\* routes.py:320-322
FortunesData(req) ==
    IF ~DictTruthy(req.fortunes) /\ req.fortune # None
    THEN Fortunes(req.fortune, None)
    ELSE req.fortunes

\* what a take at now_ts sees of the signature in the table (history only)
TakeRecord(by, cache, fortunes, now_ts, result) ==
    LET signature == _fortunes_signature(fortunes)
        found == signature \in CacheKeys(cache)
    IN  [by |-> by, signature |-> signature, found |-> found,
         src |-> IF found THEN CacheGet(cache, signature).src ELSE 0,
         age |-> IF found THEN now_ts - CacheGet(cache, signature).ts ELSE 0,
         hit |-> result # None]

\* one call of a storage method or of ai.generate_deep_analysis (history)
IoRecord(by, op, share_id, payload) ==
    [by |-> by, op |-> op, share_id |-> share_id, payload |-> payload]

\* the updates dict {"analysis_l2": analysis} of routes.py:204
AnalysisUpdate_WithFortunes(analysis) ==
    [py |-> "dict", fortunes |-> Fortunes(Missing, Missing),
     analysis_l2 |-> analysis]

AnalysisUpdate(analysis) ==
    [py |-> "dict", fortunes |-> Missing, analysis_l2 |-> analysis]

\* MergeInto that leaves the document as it was
MergeInto_NoOp(doc, updates) == doc

\* ShareStorage.update_share: the keys of updates replace those of the
\* document, the other keys of the document stay
MergeInto(doc, updates) ==
    [k \in DOMAIN doc |->
        IF k # "py" /\ updates[k] # Missing THEN updates[k] ELSE doc[k]]

\* create_share schedules the backfill whatever the take returned
NeedsBackfill_Always(token, prewarmed_analysis) == token

\* routes.py:360
NeedsBackfill(token, prewarmed_analysis) ==
    token /\ ~StrTruthy(prewarmed_analysis)

\* POST /api/share from its start to the await of storage.create_share
\* (routes.py:307-344), or to the 503 of lines 310-314
create_share(req) ==
    LET fortunes_data == FortunesData(req)
        taken == _take_prewarmed_l2_analysis(L2_PREWARM_CACHE, fortunes_data, now)
        prewarmed_analysis == taken[1]
    IN  /\ Len(tasks) < MaxTasks
        /\ IF ~storage_available
           THEN /\ tasks' = Append(tasks,
                        Task("create_share", "done", None, None, 0, None, "503"))
                /\ UNCHANGED <<L2_PREWARM_CACHE, take_log>>
           ELSE /\ L2_PREWARM_CACHE' = taken[2]
                /\ take_log' = take_log \cup
                        { TakeRecord(Len(tasks) + 1, L2_PREWARM_CACHE,
                                     fortunes_data, now, prewarmed_analysis) }
                /\ tasks' = Append(tasks,
                        Task("create_share", "persisting", fortunes_data, None,
                             FreshShareId, prewarmed_analysis, "running"))
        /\ UNCHANGED <<fn_call, invokerVars, storageVars, envVars, storage_available, io_log, now, AI_TOKEN,
                       L2_PREWARM_INFLIGHT, shares, last_evicted>>

\* create_share answers 200 whatever storage.create_share did
CreateExit_AlwaysOk(raised) == "200"

\* the status create_share ends with: the HTTPException of routes.py:358 when
\* storage.create_share raised, the return of line 382 otherwise
CreateExit(raised) == IF raised THEN "502" ELSE "200"

\* routes.py:361 awaits the backfill coroutine instead of scheduling it
BackfillTask_Awaited(share_id) ==
    Task("backfill", "generating", None, None, share_id, None, "running")

\* asyncio.create_task(_backfill_l2_analysis(share_id)): the coroutine is
\* queued and has not run when create_task returns
BackfillTask(share_id) ==
    Task("backfill", "start", None, None, share_id, None, "running")

\* the body of POST /api/share's response
CreateShareResponse(t) ==
    IF tasks[t].exit = "200"
    THEN [status |-> 200, id |-> tasks[t].share_id]
    ELSE IF tasks[t].exit = "502"
    THEN [status |-> 502, detail |-> "Failed to persist share data"]
    ELSE [status |-> 503, detail |-> "Share feature not available"]

\* POST /api/share from the return of storage.create_share to the response
\* (routes.py:344-382)
CreateSharePersisted(t) ==
    /\ tasks[t].kind = "create_share" /\ tasks[t].pc = "persisting"
    /\ LET doc == Doc(tasks[t].fortunes,
                      IF StrTruthy(tasks[t].analysis) THEN tasks[t].analysis
                      ELSE Missing)
           finished == [tasks EXCEPT ![t].pc = "done",
                                     ![t].exit = CreateExit(FALSE)]
       IN  /\ shares' = [shares EXCEPT ![tasks[t].share_id] = doc]
           /\ io_log' = io_log \cup
                    { IoRecord(t, "create_share", tasks[t].share_id, doc) }
           /\ IF NeedsBackfill(AI_TOKEN, tasks[t].analysis)
              THEN /\ Len(tasks) < MaxTasks
                   /\ tasks' = Append(finished, BackfillTask(tasks[t].share_id))
              ELSE tasks' = finished
    /\ UNCHANGED <<fn_call, invokerVars, storageVars, envVars, storage_available, now, AI_TOKEN,
                   L2_PREWARM_CACHE, L2_PREWARM_INFLIGHT, take_log,
                   last_evicted>>

\* POST /api/share when storage.create_share raises (routes.py:342-358):
\* the exception is logged and answered with 502; line 360 is not reached
CreateShareFailed(t) ==
    /\ tasks[t].kind = "create_share" /\ tasks[t].pc = "persisting"
    /\ LET doc == Doc(tasks[t].fortunes,
                      IF StrTruthy(tasks[t].analysis) THEN tasks[t].analysis
                      ELSE Missing)
       IN  io_log' = io_log \cup
                { IoRecord(t, "create_share raised", tasks[t].share_id, doc) }
    /\ tasks' = [tasks EXCEPT ![t].pc = "done", ![t].exit = CreateExit(TRUE)]
    /\ UNCHANGED <<fn_call, invokerVars, storageVars, envVars, storage_available, now, AI_TOKEN,
                   L2_PREWARM_CACHE, L2_PREWARM_INFLIGHT, shares, take_log,
                   last_evicted>>

\* the share ids a client can ask for: ids of this process, the first id not
\* yet drawn, and the id of a record that was stored before the process began
OnDemandIds ==
    { id \in 0..FreshShareId : id > 0 \/ shares[0] # Missing }

\* L2Unavailable without the look at the storage
L2Unavailable_TokenOnly(token, available) == ~token

\* routes.py:439-444: the request is answered 503
L2Unavailable(token, available) == ~token \/ ~available

\* POST /api/analysis/l2 up to the call of _compute_and_cache_l2_analysis
\* (routes.py:436-446)
generate_l2_analysis(share_id) ==
    /\ Len(tasks) < MaxTasks
    /\ tasks' = Append(tasks,
            IF L2Unavailable(AI_TOKEN, storage_available)
            THEN Task("analysis_l2", "done", None, None, share_id, None, "503")
            ELSE Task("analysis_l2", "start", None, None, share_id, None, "running"))
    /\ UNCHANGED <<fn_call, invokerVars, storageVars, envVars, storage_available, io_log, now, AI_TOKEN,
                   L2_PREWARM_CACHE, L2_PREWARM_INFLIGHT, shares, take_log,
                   last_evicted>>

\* DurableHit that never finds the field
DurableHit_Never(data) == FALSE

\* lines 192-194: the record read holds an analysis
DurableHit(data) == StrTruthy(data.analysis_l2)

\* _compute_and_cache_l2_analysis from its start over the read of the
\* record to the await of generate_deep_analysis (routes.py:186-202)
ComputeRead(t) ==
    /\ tasks[t].kind \in {"backfill", "analysis_l2"} /\ tasks[t].pc = "start"
    /\ LET id == tasks[t].share_id
           data == shares[id]
           read == IoRecord(t, "get_share", id, None)
       IN  IF ~storage_available \/ ~AI_TOKEN
           THEN /\ tasks' = [tasks EXCEPT ![t].pc = "done", ![t].exit = "absent"]
                /\ UNCHANGED io_log
           ELSE IF data = Missing
           THEN /\ tasks' = [tasks EXCEPT ![t].pc = "done", ![t].exit = "absent"]
                /\ io_log' = io_log \cup {read}
           ELSE IF DurableHit(data)
           THEN /\ tasks' = [tasks EXCEPT ![t].pc = "done", ![t].exit = "cached",
                                          ![t].analysis = data.analysis_l2]
                /\ io_log' = io_log \cup {read}
           ELSE IF ~DictTruthy(_normalize_fortunes_payload(data))
           THEN /\ tasks' = [tasks EXCEPT ![t].pc = "done", ![t].exit = "absent"]
                /\ io_log' = io_log \cup {read}
           ELSE /\ tasks' = [tasks EXCEPT ![t].pc = "generating",
                                ![t].fortunes = _normalize_fortunes_payload(data)]
                /\ io_log' = io_log \cup
                        { read,
                          IoRecord(t, "generate_deep_analysis", id,
                                   _normalize_fortunes_payload(data)) }
    /\ UNCHANGED <<fn_call, invokerVars, storageVars, envVars, storage_available, now, AI_TOKEN,
                   L2_PREWARM_CACHE, L2_PREWARM_INFLIGHT, shares, take_log,
                   last_evicted>>

\* generate_deep_analysis returns to _compute_and_cache_l2_analysis, which
\* goes on to await storage.update_share (routes.py:202-204)
ComputeGenerated(t, o) ==
    /\ tasks[t].kind \in {"backfill", "analysis_l2"} /\ Generating(t)
    /\ tasks' =
            IF o.kind = "returned"
            THEN [tasks EXCEPT ![t].pc = "updating", ![t].analysis = o.value]
            ELSE [tasks EXCEPT ![t].pc = "done", ![t].exit = "raised"]
    /\ UNCHANGED <<fn_call, invokerVars, storageVars, envVars, storage_available, io_log, now, AI_TOKEN,
                   L2_PREWARM_CACHE, L2_PREWARM_INFLIGHT, shares, take_log,
                   last_evicted>>

\* the await of storage.get_share (routes.py:190) or of storage.update_share
\* (routes.py:204) ends by an exception of the backend: a failed connection,
\* or KeyError / NotFound for an id without record
ComputeStorageRaised(t) ==
    /\ tasks[t].kind \in {"backfill", "analysis_l2"}
    /\ tasks[t].pc \in {"start", "updating"}
    /\ storage_available /\ AI_TOKEN
    /\ io_log' = io_log \cup
            { IoRecord(t, IF tasks[t].pc = "start" THEN "get_share raised"
                          ELSE "update_share raised",
                       tasks[t].share_id, None) }
    /\ tasks' = [tasks EXCEPT ![t].pc = "done", ![t].exit = "raised"]
    /\ UNCHANGED <<fn_call, invokerVars, storageVars, envVars, storage_available, now, AI_TOKEN,
                   L2_PREWARM_CACHE, L2_PREWARM_INFLIGHT, shares, take_log,
                   last_evicted>>

\* storage.update_share merges the field and the coroutine returns
\* (routes.py:204-206)
ComputeUpdated(t) ==
    /\ tasks[t].kind \in {"backfill", "analysis_l2"} /\ tasks[t].pc = "updating"
    /\ LET id == tasks[t].share_id
           updates == AnalysisUpdate(tasks[t].analysis)
       IN  /\ shares' = [shares EXCEPT ![id] = MergeInto(shares[id], updates)]
           /\ io_log' = io_log \cup { IoRecord(t, "update_share", id, updates) }
    /\ tasks' = [tasks EXCEPT ![t].pc = "done", ![t].exit = "generated"]
    /\ UNCHANGED <<fn_call, invokerVars, storageVars, envVars, storage_available, now, AI_TOKEN,
                   L2_PREWARM_CACHE, L2_PREWARM_INFLIGHT, take_log,
                   last_evicted>>

\* no coroutine has a handler around its body
Propagates_NoHandler(kind, exit) == exit = "raised"

\* whether a coroutine that met an exception ends with it: the except
\* clauses of _prewarm_l2_from_fortunes (routes.py:110-111) and of
\* _backfill_l2_analysis (routes.py:213-216) log it and return, the
\* endpoints have no handler
Propagates(kind, exit) ==
    exit = "raised" /\ kind \notin {"prewarm", "backfill"}

\* ComputeResult that reports every text as freshly generated
ComputeResult_NeverCached(t) ==
    IF tasks[t].exit \in {"cached", "generated"}
    THEN <<tasks[t].analysis, FALSE>>
    ELSE <<None, FALSE>>

\* the pair _compute_and_cache_l2_analysis returned to a finished request
ComputeResult(t) ==
    CASE tasks[t].exit = "cached"    -> <<tasks[t].analysis, TRUE>>
      [] tasks[t].exit = "generated" -> <<tasks[t].analysis, FALSE>>
      [] OTHER                       -> <<None, FALSE>>

\* the response of POST /api/analysis/l2 (routes.py:439-450)
L2Response(t) ==
    IF tasks[t].exit = "503"
    THEN [status |-> 503, analysis |-> None, cached |-> FALSE]
    ELSE IF ComputeResult(t)[1] = None
    THEN [status |-> 404, analysis |-> None, cached |-> FALSE]
    ELSE [status |-> 200, analysis |-> ComputeResult(t)[1],
          cached |-> ComputeResult(t)[2]]

(***************************************************************************)
(* storage.py                                                              *)
(***************************************************************************)
MaxStoreIds == 2    \* share ids the storage is called with

StoreIds == 1..MaxStoreIds

\* a datetime.datetime value
Datetime(iso) == [py |-> "datetime", iso |-> iso]

\* a document or an updates dict: the keys fortunes, analysis_l2 and
\* email_sent_at, each possibly missing
StoreDoc(fortunes, analysis_l2, email_sent_at) ==
    [py |-> "dict", fortunes |-> fortunes, analysis_l2 |-> analysis_l2,
     email_sent_at |-> email_sent_at]

\* the dict {"grok": {"face": "a"}}
FaceOnly ==
    [py |-> "dict", grok |-> [py |-> "dict", face |-> Str(<<"a">>)]]

\* documents create_share is called with: the doc of routes.create_share
\* and a Firestore document that scripts/backfill_firebase_to_postgres.py
\* copies, which holds the time its email was sent
StoreDocs ==
    { StoreDoc(FaceOnly, Missing, Missing),
      StoreDoc(FaceOnly, Str(<<"old">>), Datetime("t1")) }

\* updates update_share is called with
StoreUpdates ==
    { StoreDoc(Missing, Str(<<"done">>), Missing),
      StoreDoc(Missing, Missing, Datetime("t2")) }

NoRow == [json |-> "no-row"]
NoDoc == [py |-> "no-doc"]

\* json.dumps(value, ensure_ascii=False, default=_json_default) read as
\* jsonb: a datetime is written as the string of its isoformat()
RECURSIVE ToJson(_)
ToJson(v) ==
    CASE v = Missing        -> Missing
      [] v.py = "None"      -> [json |-> "null"]
      [] v.py = "str"       -> [json |-> "string", s |-> v.s]
      [] v.py = "datetime"  -> [json |-> "string", s |-> <<v.iso>>]
      [] v.py = "dict"      ->
            [json |-> "object",
             members |-> [k \in DOMAIN v \ {"py"} |-> ToJson(v[k])]]

\* json.loads of data::text
RECURSIVE FromJson(_)
FromJson(j) ==
    CASE j = Missing          -> Missing
      [] j.json = "null"      -> None
      [] j.json = "string"    -> Str(j.s)
      [] j.json = "object"    ->
            [k \in DOMAIN j.members \cup {"py"} |->
                IF k = "py" THEN "dict" ELSE FromJson(j.members[k])]

\* JsonbConcat that keeps the right operand only
JsonbConcat_Replace(a, b) == b

\* the jsonb operator ||  on two objects: the members of b replace those of a
JsonbConcat(a, b) ==
    [json |-> "object",
     members |-> [k \in DOMAIN a.members |->
                    IF b.members[k] # Missing THEN b.members[k]
                    ELSE a.members[k]]]

\* PgUpdateStatement that inserts the row when no row has the id
PgUpdateStatement_Upsert(rows, share_id, payload) ==
    [rows |-> [rows EXCEPT ![share_id] =
                IF rows[share_id] = NoRow THEN payload
                ELSE JsonbConcat(rows[share_id], payload)],
     rowcount |-> 1]

\* the UPDATE statement of lines 173-181: the table after it and cur.rowcount
PgUpdateStatement(rows, share_id, payload) ==
    IF rows[share_id] = NoRow
    THEN [rows |-> rows, rowcount |-> 0]
    ELSE [rows |-> [rows EXCEPT ![share_id] = JsonbConcat(rows[share_id], payload)],
          rowcount |-> 1]

\* one call of a method of the share storage
StCall(backend, op, share_id, arg, result) ==
    [backend |-> backend, op |-> op, share_id |-> share_id, arg |-> arg,
     result |-> result]

Updated == [py |-> "updated"]

\* the outcome of a storage method: the table after it and what the call
\* returned or raised
Outcome(table, result) == [table |-> table, result |-> result]

\* st_created after a call of create_share with the given result
AfterCreate(history, share_id, data, result) ==
    IF result = None THEN [history EXCEPT ![share_id] = data] ELSE history

\* st_created after a call of update_share with the given result
AfterUpdate(history, share_id, result) ==
    IF result = None THEN [history EXCEPT ![share_id] = Updated] ELSE history

\* PostgresShareStorage.create_share: the INSERT fails on a row with the id
PgCreate(rows, share_id, data) ==
    IF rows[share_id] # NoRow
    THEN Outcome(rows, Raised("UniqueViolation"))
    ELSE Outcome([rows EXCEPT ![share_id] = ToJson(data)], None)

PgCreateShare(share_id, data) ==
    /\ storage_backend = "postgres"
    /\ LET o == PgCreate(pg_rows, share_id, data)
       IN  /\ pg_rows' = o.table
           /\ st_created' = AfterCreate(st_created, share_id, data, o.result)
           /\ st_call' = StCall("postgres", "create_share", share_id, data, o.result)
    /\ UNCHANGED <<fn_call, invokerVars, routeVars, envVars, storage_backend, fs_docs>>

\* what PostgresShareStorage.get_share returns (lines 164-167)
PgSelect(rows, share_id) ==
    IF rows[share_id] = NoRow THEN None ELSE FromJson(rows[share_id])

\* PostgresShareStorage.get_share
PgGetShare(share_id) ==
    /\ storage_backend = "postgres"
    /\ st_call' = StCall("postgres", "get_share", share_id, None,
                         PgSelect(pg_rows, share_id))
    /\ UNCHANGED <<fn_call, invokerVars, routeVars, envVars, storage_backend, pg_rows, fs_docs,
                   st_created>>

\* PostgresShareStorage.update_share: KeyError leaves the with block of the
\* connection, which rolls the transaction back
PgUpdate(rows, share_id, updates) ==
    LET done == PgUpdateStatement(rows, share_id, ToJson(updates))
    IN  IF done.rowcount = 0
        THEN Outcome(rows, Raised("KeyError"))
        ELSE Outcome(done.rows, None)

PgUpdateShare(share_id, updates) ==
    /\ storage_backend = "postgres"
    /\ LET o == PgUpdate(pg_rows, share_id, updates)
       IN  /\ pg_rows' = o.table
           /\ st_created' = AfterUpdate(st_created, share_id, o.result)
           /\ st_call' = StCall("postgres", "update_share", share_id, updates,
                                o.result)
    /\ UNCHANGED <<fn_call, invokerVars, routeVars, envVars, storage_backend, fs_docs>>

\* firestore_retry(fn, *args) as its callers use it: the outcome of fn(*args)
firestore_retry(outcome) == outcome

\* FsSet that merges into the document the id has
FsSet_Merge(docs, share_id, data) ==
    [docs EXCEPT ![share_id] =
        IF docs[share_id] = NoDoc THEN data ELSE MergeInto(docs[share_id], data)]

\* DocumentReference.set(data): the document is replaced as a whole
FsSet(docs, share_id, data) == [docs EXCEPT ![share_id] = data]

\* FirebaseShareStorage.create_share
FsCreate(available, docs, share_id, data) ==
    IF ~available
    THEN Outcome(docs, Raised("RuntimeError"))
    ELSE Outcome(firestore_retry(FsSet(docs, share_id, data)), None)

FsCreateShare(share_id, data) ==
    /\ storage_backend = "firebase"
    /\ LET o == FsCreate(storage_available, fs_docs, share_id, data)
       IN  /\ fs_docs' = o.table
           /\ st_created' = AfterCreate(st_created, share_id, data, o.result)
           /\ st_call' = StCall("firebase", "create_share", share_id, data, o.result)
    /\ UNCHANGED <<fn_call, invokerVars, routeVars, envVars, storage_backend, pg_rows>>

\* what FirebaseShareStorage.get_share returns (lines 58-64)
FsGet(available, docs, share_id) ==
    LET doc == firestore_retry(docs[share_id])
    IN  IF ~available \/ doc = NoDoc THEN None ELSE doc

\* FirebaseShareStorage.get_share
FsGetShare(share_id) ==
    /\ storage_backend = "firebase"
    /\ st_call' = StCall("firebase", "get_share", share_id, None,
                         FsGet(storage_available, fs_docs, share_id))
    /\ UNCHANGED <<fn_call, invokerVars, routeVars, envVars, storage_backend, pg_rows, fs_docs,
                   st_created>>

\* FirebaseShareStorage.update_share: DocumentReference.update raises
\* NotFound for an id without document
FsUpdate(available, docs, share_id, updates) ==
    IF ~available
    THEN Outcome(docs, Raised("RuntimeError"))
    ELSE IF docs[share_id] = NoDoc
    THEN Outcome(docs, firestore_retry(Raised("NotFound")))
    ELSE Outcome(firestore_retry(
                    [docs EXCEPT ![share_id] = MergeInto(docs[share_id], updates)]),
                 None)

FsUpdateShare(share_id, updates) ==
    /\ storage_backend = "firebase"
    /\ LET o == FsUpdate(storage_available, fs_docs, share_id, updates)
       IN  /\ fs_docs' = o.table
           /\ st_created' = AfterUpdate(st_created, share_id, o.result)
           /\ st_call' = StCall("firebase", "update_share", share_id, updates,
                                o.result)
    /\ UNCHANGED <<fn_call, invokerVars, routeVars, envVars, storage_backend, pg_rows>>

\* the same create_share on a PostgresShareStorage and a
\* FirebaseShareStorage that run side by side
BothCreateShare(share_id, data) ==
    /\ storage_backend = "both"
    /\ LET p == PgCreate(pg_rows, share_id, data)
           f == FsCreate(storage_available, fs_docs, share_id, data)
       IN  /\ pg_rows' = p.table
           /\ fs_docs' = f.table
           /\ st_call' = StCall("both", "create_share", share_id, data,
                                <<p.result, f.result>>)
    /\ UNCHANGED <<fn_call, invokerVars, routeVars, envVars, storage_backend, st_created>>

\* the same get_share on both
BothGetShare(share_id) ==
    /\ storage_backend = "both"
    /\ st_call' = StCall("both", "get_share", share_id, None,
                         <<PgSelect(pg_rows, share_id),
                           FsGet(storage_available, fs_docs, share_id)>>)
    /\ UNCHANGED <<fn_call, invokerVars, routeVars, envVars, storage_backend, pg_rows, fs_docs,
                   st_created>>

\* the same update_share on both
BothUpdateShare(share_id, updates) ==
    /\ storage_backend = "both"
    /\ LET p == PgUpdate(pg_rows, share_id, updates)
           f == FsUpdate(storage_available, fs_docs, share_id, updates)
       IN  /\ pg_rows' = p.table
           /\ fs_docs' = f.table
           /\ st_call' = StCall("both", "update_share", share_id, updates,
                                <<p.result, f.result>>)
    /\ UNCHANGED <<fn_call, invokerVars, routeVars, envVars, storage_backend, st_created>>

\* the storage of a process that has not called it
StorageIdle ==
    /\ pg_rows = [id \in StoreIds |-> NoRow]
    /\ fs_docs = [id \in StoreIds |-> NoDoc]
    /\ st_call = None
    /\ st_created = [id \in StoreIds |-> Missing]

(***************************************************************************)
(* storage.py: selection of the backend                                    *)
(***************************************************************************)
\* str.lower() of one token
LowerTok(tok) ==
    CASE tok = "AUTO" -> "auto"
      [] tok = "EP-aged" -> "ep-aged"
      [] OTHER -> tok

\* str.lower()
Lower(v) == Str([i \in 1..Len(v.s) |-> LowerTok(v.s[i])])

\* values of SHARE_STORAGE_BACKEND; Missing is the unset variable
EnvBackends ==
    {Missing, Str(<<"auto">>), EmptyStr, Str(<<SP, "AUTO", SP>>),
     Str(<<"firebase">>), Str(<<"postgres">>), Str(<<"sqlite">>)}

\* a connection string as urlsplit and parse_qsl(keep_blank_values=True)
\* read it: the host labels of netloc and the list of (key, value) pairs of
\* the query; a value is a sequence of tokens
Url(netloc, query) == [py |-> "url", netloc |-> netloc, query |-> query]

Netlocs ==
    {<<>>, <<"db", "koyeb">>, <<"ep-aged", "koyeb">>, <<"EP-aged", "koyeb">>}

Queries ==
    {<<>>,
     <<<<"sslmode", <<"require">>>>>>,
     <<<<"sslmode", <<"disable">>>>>>,
     <<<<"options", <<"endpoint=", "ep-other">>>>>>,
     <<<<"options", <<"-c">>>>>>,
     <<<<"sslmode", <<"require">>>>, <<"sslmode", <<"disable">>>>>>,
     <<<<"sslmode", <<"disable">>>>, <<"options", <<"-c">>>>>>}

ConnectionStrings == { Url(n, q) : n \in Netlocs, q \in Queries }

\* values of SHARE_DATABASE_URL: unset, empty or a connection string
EnvUrls == {Missing, EmptyStr} \cup ConnectionStrings

\* os.getenv(name, default)
Getenv(environ, name, default) ==
    IF environ[name] = Missing THEN default ELSE environ[name]

\* key in d, for a dict kept as its items in insertion order
HasKey(d, key) == \E i \in 1..Len(d) : d[i][1] = key

\* d[key] = value
DictSet(d, key, value) ==
    IF HasKey(d, key)
    THEN [i \in 1..Len(d) |-> IF d[i][1] = key THEN <<key, value>> ELSE d[i]]
    ELSE Append(d, <<key, value>>)

\* d.get(key, default)
ItemGet(d, key, default) ==
    IF HasKey(d, key)
    THEN d[CHOOSE i \in 1..Len(d) : d[i][1] = key][2]
    ELSE default

\* dict(pairs): a later pair of a key replaces the value of an earlier one
RECURSIVE DictUpdate(_, _)
DictUpdate(d, pairs) ==
    IF pairs = <<>> THEN d
    ELSE DictUpdate(DictSet(d, Head(pairs)[1], Head(pairs)[2]), Tail(pairs))

DictOfPairs(pairs) == DictUpdate(<<>>, pairs)

\* SplitResult.hostname: the host of netloc in lower case, "" without host
Hostname(netloc) == [i \in 1..Len(netloc) |-> LowerTok(netloc[i])]

\* host.startswith("ep-")
StartsWithEp(host) == host # <<>> /\ host[1] \in {"ep-aged"}

\* "endpoint=" in options_value
ContainsEndpoint(value) == \E i \in 1..Len(value) : value[i] = "endpoint="

\* storage.py:102-103
WithSslmode(query) ==
    IF ~HasKey(query, "sslmode")
    THEN DictSet(query, "sslmode", <<"require">>)
    ELSE query

\* storage.py:105-109
WithEndpoint(query, netloc) ==
    LET host == Hostname(netloc)
        endpoint_id == IF StartsWithEp(host) THEN <<host[1]>> ELSE <<>>
        options_value == ItemGet(query, "options", <<>>)
    IN  IF endpoint_id # <<>> /\ ~ContainsEndpoint(options_value)
        THEN DictSet(query, "options", <<"endpoint=">> \o endpoint_id)
        ELSE query

\* PostgresShareStorage._normalize_database_url; urlencode and urlunsplit
\* write the items of the dict in its order behind the unchanged netloc
_normalize_database_url(database_url) ==
    Url(database_url.netloc,
        WithEndpoint(WithSslmode(DictOfPairs(database_url.query)),
                     database_url.netloc))

\* what the server does with the statements of _ensure_table
PgServers ==
    {"ok", "connection refused", "permission denied for schema, table exists",
     "permission denied for schema, no table",
     "statement timeout, table exists"}

\* the exception CREATE TABLE IF NOT EXISTS, or the connection made for it,
\* ends with; None when the statement succeeds
CreateTableError(server) ==
    CASE server = "ok" -> None
      [] server = "connection refused" -> Raised("OperationalError")
      [] server = "statement timeout, table exists" -> Raised("QueryCanceled")
      [] OTHER -> Raised("InsufficientPrivilege")

\* line 136: the message of the exception names the schema permission
PermissionDeniedForSchema(server) ==
    server \in {"permission denied for schema, table exists",
                "permission denied for schema, no table"}

\* Regclass that finds every table
Regclass_Always(server) == TRUE

\* lines 138-142: SELECT to_regclass returns a row that names the table
Regclass(server) ==
    server \in {"permission denied for schema, table exists",
                "statement timeout, table exists"}

\* PostgresShareStorage._ensure_table: what it raises, None when it returns,
\* and the number of connections it opens
_ensure_table(server) ==
    IF CreateTableError(server) = None
    THEN [result |-> None, connects |-> 1]
    ELSE IF ~PermissionDeniedForSchema(server)
    THEN [result |-> CreateTableError(server), connects |-> 1]
    ELSE IF ~Regclass(server)
    THEN [result |-> CreateTableError(server), connects |-> 2]
    ELSE [result |-> None, connects |-> 2]

\* PostgresShareStorage(database_url)
PostgresShareStorage(database_url, server) ==
    IF database_url = EmptyStr
    THEN [result |-> Raised("RuntimeError"), connects |-> 0]
    ELSE LET e == _ensure_table(server)
         IN  [result |-> IF e.result = None
                         THEN [py |-> "PostgresShareStorage",
                               _database_url |->
                                    _normalize_database_url(database_url)]
                         ELSE e.result,
              connects |-> e.connects]

\* FirebaseShareStorage()
FirebaseShareStorage == [py |-> "FirebaseShareStorage"]

\* the try block of lines 197-201 without its except clause
AutoPostgres_NoFallback(database_url, server) ==
    PostgresShareStorage(database_url, server)

\* storage.py:197-201
AutoPostgres(database_url, server) ==
    LET made == PostgresShareStorage(database_url, server)
    IN  IF ~IsRaised(made.result)
        THEN made
        ELSE [result |-> FirebaseShareStorage, connects |-> made.connects]

\* str.strip() of SHARE_DATABASE_URL: a connection string has no blanks
StripUrl(v) == IF v.py = "str" THEN Strip(v) ELSE v

\* the local backend of _build_share_storage_from_env
BackendOf(environ) ==
    Lower(Strip(Getenv(environ, "SHARE_STORAGE_BACKEND", Str(<<"auto">>))))

\* the local database_url of _build_share_storage_from_env
DatabaseUrlOf(environ) ==
    StripUrl(Getenv(environ, "SHARE_DATABASE_URL", EmptyStr))

_build_share_storage_from_env(environ, server) ==
    LET backend == BackendOf(environ)
        database_url == DatabaseUrlOf(environ)
    IN  IF backend = Str(<<"postgres">>)
        THEN PostgresShareStorage(database_url, server)
        ELSE IF backend \in {Str(<<"auto">>), EmptyStr} /\ database_url # EmptyStr
        THEN AutoPostgres(database_url, server)
        ELSE IF backend \in {Str(<<"firebase">>), Str(<<"auto">>), EmptyStr}
        THEN [result |-> FirebaseShareStorage, connects |-> 0]
        ELSE [result |-> Raised("ValueError"), connects |-> 0]

\* a call of get_share_storage or reset_share_storage_from_env: whether it
\* built a backend, what the build returned or raised, the connections it
\* opened and what the caller got
MaxEnvCalls == 3    \* calls of the backend selection in one behaviour

\* calls of get_share_storage and reset_share_storage_from_env so far
CallsSoFar == IF env_call = None THEN 0 ELSE env_call.n

EnvCall(op, built, connects, result) ==
    [n |-> CallsSoFar + 1, op |-> op, built |-> built, connects |-> connects,
     result |-> result]

\* the global after an assignment of the outcome of a build; an exception
\* leaves it as it is
Assigned(old, result) == IF IsRaised(result) THEN old ELSE result

\* Resolved that forgets the instance
Resolved_Never(storage) == FALSE

\* line 216: the module holds an instance
Resolved(storage) == storage # None

get_share_storage ==
    /\ CallsSoFar < MaxEnvCalls
    /\ IF ~Resolved(_share_storage)
       THEN LET made == _build_share_storage_from_env(os_environ, pg_server)
            IN  /\ _share_storage' = Assigned(_share_storage, made.result)
                /\ env_call' = EnvCall("get_share_storage", TRUE,
                                       made.connects, made.result)
       ELSE /\ env_call' = EnvCall("get_share_storage", FALSE, 0,
                                   _share_storage)
            /\ UNCHANGED _share_storage
    /\ UNCHANGED <<fn_call, invokerVars, routeVars, storageVars, os_environ, pg_server>>

reset_share_storage_from_env ==
    /\ CallsSoFar < MaxEnvCalls
    /\ LET made == _build_share_storage_from_env(os_environ, pg_server)
       IN  /\ _share_storage' = Assigned(_share_storage, made.result)
           /\ env_call' = EnvCall("reset_share_storage_from_env", TRUE,
                                  made.connects,
                                  IF IsRaised(made.result)
                                  THEN made.result ELSE None)
    /\ UNCHANGED <<fn_call, invokerVars, routeVars, storageVars, os_environ, pg_server>>

\* the server comes up, goes down or changes the grants of the role
ServerChanges(server) ==
    /\ server # pg_server
    /\ pg_server' = server
    /\ UNCHANGED <<fn_call, invokerVars, routeVars, storageVars, os_environ,
                   _share_storage, env_call>>

\* a process that has not resolved its storage
EnvIdle ==
    /\ os_environ = [SHARE_STORAGE_BACKEND |-> Missing,
                     SHARE_DATABASE_URL |-> Missing]
    /\ pg_server = "ok"
    /\ _share_storage = None
    /\ env_call = None

(***************************************************************************)
(* routes.py: functions called on their own                                *)
(***************************************************************************)
\* a call of a function, its arguments and what it returned
FnCall(fn, args, result) == [fn |-> fn, args |-> args, result |-> result]

\* the items of a grok reading in the order its JSON text has them
ReadingItems(face, career, blessing) ==
    { <<<<"face", face>>, <<"career", career>>, <<"blessing", blessing>>,
        <<"source", "ai">>>>,
      <<<<"model", "grok">>, <<"source", "fallback">>, <<"blessing", blessing>>,
        <<"career", career>>, <<"face", face>>>>,
      <<<<"blessing", blessing>>, <<"face", face>>, <<"career", career>>>> }

\* grok readings: the texts vary in each of the three fields; the empty
\* text "" is what grok.get(key, "") gives for an absent key
GrokItems ==
    UNION { ReadingItems(face, career, blessing) :
                face \in {"A", "E"}, career \in {"B"}, blessing \in {"C", "D"} }
        \cup { <<<<"career", "B">>, <<"blessing", "C">>>>,
               <<<<"face", "">>, <<"career", "B">>, <<"blessing", "C">>>> }

\* the dict a JSON object with the given items is parsed into, as a reading:
\* grok.get(key, "") for the three fields of routes.py:48-50
ReadingOfItems(items) ==
    LET d == DictOfPairs(items)
    IN  Reading(ItemGet(d, "face", ""), ItemGet(d, "career", ""),
                ItemGet(d, "blessing", ""), ItemGet(d, "source", ""))

\* fortunes payloads: a grok reading next to any other provider's
SignatureInputs ==
    { [gemini |-> g, grok |-> items] : g \in {Missing, RL}, items \in GrokItems }

FortunesOfInput(input) == Fortunes(input.gemini, ReadingOfItems(input.grok))

\* _fortunes_signature is called on two payloads
CallSignature(a, b) ==
    /\ fn_call = None
    /\ fn_call' = FnCall("_fortunes_signature", <<a, b>>,
                         <<_fortunes_signature(FortunesOfInput(a)),
                           _fortunes_signature(FortunesOfInput(b))>>)
    /\ UNCHANGED <<invokerVars, routeVars, storageVars, envVars>>

\* a float, as its number of millionths; a NaN or an infinity; an int
Float(micro) == [py |-> "float", micro |-> micro]
NonFinite == [py |-> "float", finite |-> FALSE]
PyInt(n) == [py |-> "int", n |-> n]

\* round(value, 5) of a finite float that is no tie
Round5(micro) == ((micro + 5) \div 10) * 10

\* _sanitize_for_firestore of a number (routes.py:134-140)
SanitizeNumber(value) ==
    IF value.py = "float"
    THEN IF "finite" \in DOMAIN value THEN None
         ELSE Float(Round5(value.micro))
    ELSE value

\* _sanitize_for_firestore of a list of lists of numbers (routes.py:130-131)
SanitizeLandmarks(landmarks) ==
    [i \in 1..Len(landmarks) |->
        [j \in 1..Len(landmarks[i]) |-> SanitizeNumber(landmarks[i][j])]]

\* a visualization payload: the landmarks and one of the measurements
Visualization(landmarks, score) ==
    [py |-> "dict", landmarks |-> landmarks, score |-> score]

\* _sanitize_for_firestore of a visualization payload (routes.py:123-141)
_sanitize_for_firestore(value) ==
    Visualization(SanitizeLandmarks(value.landmarks),
                  SanitizeNumber(value.score))

\* the mapping a point is stored as
XY(x, y) == [py |-> "dict", x |-> x, y |-> y]

\* whether the loop of routes.py:152-156 converts the point: a list of at
\* least two elements
Converts(point) == Len(point) >= 2

\* _encode_visualization_for_firestore (routes.py:143-159)
_encode_visualization_for_firestore(value) ==
    LET sanitized == _sanitize_for_firestore(value)
        points == SelectSeq(sanitized.landmarks, Converts)
    IN  Visualization([i \in 1..Len(points) |-> XY(points[i][1], points[i][2])],
                      sanitized.score)

\* the pair of a stored point, with the coordinates exchanged
DecodePoint_Swapped(point) == <<point.y, point.x>>

\* [point.get("x"), point.get("y")] (routes.py:170)
DecodePoint(point) == <<point.x, point.y>>

\* the condition of routes.py:172: a dict with the keys x and y
IsXY(point) == {"x", "y"} \subseteq DOMAIN point

\* _decode_visualization_from_firestore (routes.py:162-174)
_decode_visualization_from_firestore(value) ==
    LET points == SelectSeq(value.landmarks, IsXY)
    IN  Visualization([i \in 1..Len(points) |-> DecodePoint(points[i])],
                      value.score)

\* coordinates a client sends
Coordinates == {Float(100000), Float(123456), NonFinite, PyInt(1)}

\* points that are two-element ordered pairs
Points == { <<x, y>> : x, y \in Coordinates }

\* landmarks lists of no, one or two points
LandmarkLists ==
    {<<>>} \cup { <<p>> : p \in Points } \cup { <<p, q>> : p, q \in Points }

\* a payload is encoded for the storage and the stored form is decoded
CallVisualization(landmarks) ==
    /\ fn_call = None
    /\ LET value == Visualization(landmarks, Float(123456))
           encoded == _encode_visualization_for_firestore(value)
       IN  fn_call' = FnCall("visualization", <<value>>,
                    [encoded |-> encoded,
                     decoded |-> _decode_visualization_from_firestore(encoded)])
    /\ UNCHANGED <<invokerVars, routeVars, storageVars, envVars>>

(***************************************************************************)
(* Specifications                                                          *)
(***************************************************************************)
InvokerIdle ==
    /\ InvokerInit
    /\ display_name = "Gemini"
    /\ user_msg = UserMsg(Fortunes(Missing, Missing))

\* a process whose share storage is configured and holds no record
Init ==
    /\ InvokerIdle /\ RouteInit /\ storage_available
    /\ StorageIdle /\ fn_call = None /\ EnvIdle /\ storage_backend = "postgres"

InitInvoker ==
    /\ InvokerInit /\ RouteInit /\ AI_TOKEN /\ storage_available
    /\ StorageIdle /\ fn_call = None /\ EnvIdle /\ storage_backend = "postgres"

\* records an earlier process left in the share storage under an id
StoredRecords ==
    { Missing,
      Doc(Fortunes(Missing, RA), Missing),
      Doc(Fortunes(Missing, RA), Str(<<"old">>)) }

\* a process that starts on a storage which may hold a record, or on none
InitShare ==
    /\ InvokerIdle
    /\ StorageIdle /\ fn_call = None /\ EnvIdle /\ storage_backend = "postgres"
    /\ now = 0
    /\ AI_TOKEN \in BOOLEAN
    /\ storage_available \in BOOLEAN
    /\ L2_PREWARM_CACHE = <<>>
    /\ L2_PREWARM_INFLIGHT = {}
    /\ tasks = <<>>
    /\ shares \in { [id \in ShareIds |-> IF id = 0 THEN d ELSE Missing] :
                        d \in IF storage_available THEN StoredRecords ELSE {Missing} }
    /\ take_log = {}
    /\ io_log = {}
    /\ last_evicted = <<>>

Next ==
    \/ \E d \in TickSteps : Tick(d)
    \/ \E r \in GrokResults : generate_fortune(r)
    \/ \E t \in TaskIds : PrewarmStart(t)
    \/ \E t \in TaskIds : \E o \in AwaitOutcomes : PrewarmFinish(t, o)
    \/ \E req \in ShareRequests : create_share(req)
    \/ \E t \in TaskIds : CreateSharePersisted(t)
    \/ \E id \in OnDemandIds : generate_l2_analysis(id)
    \/ \E t \in TaskIds : ComputeRead(t)
    \/ \E t \in TaskIds : \E o \in AwaitOutcomes : ComputeGenerated(t, o)
    \/ \E t \in TaskIds : ComputeUpdated(t)

Spec == Init /\ [][Next]_vars

InvokerNext ==
    \/ \E o \in PostOutcomes : DeepPost(o)
    \/ DeepWake
    \/ GenerateDeepAnalysisReturn
    \/ generate_multi_model_analysis

SpecInvoker == InitInvoker /\ [][InvokerNext]_vars

\* the event loop resumes every coroutine whose await has completed: a POST
\* ends within the client's timeout of 300 s and asyncio.sleep(delay) ends
\* after its finite delay
SpecInvokerLive ==
    /\ SpecInvoker
    /\ WF_vars(\E o \in PostOutcomes : DeepPost(o))
    /\ WF_vars(DeepWake)

\* share creation, backfill and the on-demand endpoint without the prewarm
ShareNext ==
    \/ \E req \in ShareRequests : create_share(req)
    \/ \E t \in TaskIds : CreateSharePersisted(t)
    \/ \E id \in OnDemandIds : generate_l2_analysis(id)
    \/ \E t \in TaskIds : ComputeRead(t)
    \/ \E t \in TaskIds : \E o \in AwaitOutcomes : ComputeGenerated(t, o)
    \/ \E t \in TaskIds : ComputeUpdated(t)

SpecShare == InitShare /\ [][ShareNext]_vars

\* a process with credentials on a configured, empty storage
InitFaults ==
    /\ InvokerIdle
    /\ StorageIdle /\ fn_call = None /\ EnvIdle /\ storage_backend = "postgres"
    /\ RouteInit /\ AI_TOKEN /\ storage_available

\* the coroutines of routes.py on a storage whose calls can raise
FaultsNext ==
    \/ \E r \in GrokResults : generate_fortune(r)
    \/ \E t \in TaskIds : PrewarmStart(t)
    \/ \E t \in TaskIds : \E o \in AwaitOutcomes : PrewarmFinish(t, o)
    \/ \E req \in ShareRequests : create_share(req)
    \/ \E t \in TaskIds : CreateSharePersisted(t)
    \/ \E t \in TaskIds : CreateShareFailed(t)
    \/ \E id \in OnDemandIds : generate_l2_analysis(id)
    \/ \E t \in TaskIds : ComputeRead(t)
    \/ \E t \in TaskIds : \E o \in AwaitOutcomes : ComputeGenerated(t, o)
    \/ \E t \in TaskIds : ComputeStorageRaised(t)
    \/ \E t \in TaskIds : ComputeUpdated(t)

SpecFaults == InitFaults /\ [][FaultsNext]_vars

\* the backend _build_share_storage_from_env chose, with empty tables; the
\* Firestore backend with or without a client
InitStorage ==
    /\ InvokerIdle /\ RouteInit /\ AI_TOKEN
    /\ StorageIdle /\ fn_call = None /\ EnvIdle
    /\ storage_backend \in {"postgres", "firebase"}
    /\ storage_backend = "postgres" => storage_available

StorageNext ==
    \/ \E id \in StoreIds : \E d \in StoreDocs : PgCreateShare(id, d)
    \/ \E id \in StoreIds : PgGetShare(id)
    \/ \E id \in StoreIds : \E u \in StoreUpdates : PgUpdateShare(id, u)
    \/ \E id \in StoreIds : \E d \in StoreDocs : FsCreateShare(id, d)
    \/ \E id \in StoreIds : FsGetShare(id)
    \/ \E id \in StoreIds : \E u \in StoreUpdates : FsUpdateShare(id, u)

SpecStorage == InitStorage /\ [][StorageNext]_vars

\* a configured Firestore and a PostgreSQL table, both empty, that receive
\* the same calls
InitBackends ==
    /\ InvokerIdle /\ RouteInit /\ AI_TOKEN /\ storage_available
    /\ StorageIdle /\ fn_call = None /\ EnvIdle
    /\ storage_backend = "both"

BackendsNext ==
    \/ \E id \in StoreIds : \E d \in StoreDocs : BothCreateShare(id, d)
    \/ \E id \in StoreIds : BothGetShare(id)
    \/ \E id \in StoreIds : \E u \in StoreUpdates : BothUpdateShare(id, u)

SpecBackends == InitBackends /\ [][BackendsNext]_vars

\* a process started with any environment, next to any server
InitEnv ==
    /\ InvokerIdle /\ RouteInit /\ AI_TOKEN /\ storage_available
    /\ StorageIdle /\ fn_call = None /\ storage_backend = "postgres"
    /\ os_environ \in [SHARE_STORAGE_BACKEND : EnvBackends,
                       SHARE_DATABASE_URL : EnvUrls]
    /\ pg_server \in PgServers
    /\ _share_storage = None
    /\ env_call = None

EnvNext ==
    \/ get_share_storage
    \/ reset_share_storage_from_env
    \/ \E server \in PgServers : ServerChanges(server)

SpecEnv == InitEnv /\ [][EnvNext]_vars

\* no call made yet
InitPure ==
    /\ InvokerIdle /\ RouteInit /\ AI_TOKEN /\ storage_available
    /\ StorageIdle /\ storage_backend = "postgres" /\ EnvIdle
    /\ fn_call = None

PureNext ==
    \/ \E a, b \in SignatureInputs : CallSignature(a, b)
    \/ \E landmarks \in LandmarkLists : CallVisualization(landmarks)

SpecPure == InitPure /\ [][PureNext]_vars

TypeOK ==
    /\ dm_pc \in {"post", "sleep", "returned", "done", "unused"}
    /\ attempt \in 1..max_attempts
    /\ Len(tasks) <= MaxTasks
    /\ L2_PREWARM_INFLIGHT \subseteq { _fortunes_signature(Fortunes(Missing, r)) : r \in GrokResults }

(***************************************************************************)
(* Properties                                                              *)
(***************************************************************************)
PrewarmTasks == { t \in TaskIds : tasks[t].kind = "prewarm" }

\* the signature of the fortunes coroutine t works on
SignatureOf(t) == _fortunes_signature(tasks[t].fortunes)

\* C1 as claimed: at any instant at most one upstream deep-analysis
\* generation call is active for a fortunes signature, whichever of prewarm,
\* backfill and on-demand coroutines are making the calls.
C1_OneCallPerSignature ==
    \A t1, t2 \in TaskIds :
        Generating(t1) /\ Generating(t2) /\ SignatureOf(t1) = SignatureOf(t2)
            => t1 = t2

\* C1 amended: at any instant at most one upstream generation call made by
\* a prewarm is active for a fortunes signature.
C1_OnePrewarmCallPerSignature ==
    \A t1, t2 \in PrewarmTasks :
        Generating(t1) /\ Generating(t2) /\ SignatureOf(t1) = SignatureOf(t2)
            => t1 = t2

\* a prewarm is generating while a second prewarm of the same signature ended
\* as a no-op
C1_Witness ==
    \E t1, t2 \in PrewarmTasks :
        /\ Generating(t1)
        /\ tasks[t2].exit = "skipped"
        /\ SignatureOf(t1) = SignatureOf(t2)

\* C2: a cached result is consumed at most once: no two takes return the
\* entry one prewarm stored, so one cached text goes into at most one share
\* record.
C2_ConsumedAtMostOnce ==
    \A a, b \in take_log : a.hit /\ b.hit /\ a.src = b.src => a = b

\* a take returned the cached text and a later take of the same signature
\* returned nothing
C2_Witness ==
    \E a, b \in take_log :
        /\ a.hit /\ ~b.hit
        /\ a.signature = b.signature
        /\ a.by < b.by

\* C3: a take that finds an entry of its signature in the table returns the
\* entry's text if and only if the entry's age is at most the time to live.
C3_TtlEligibility ==
    \A r \in take_log : r.found => (r.hit <=> r.age <= L2_PREWARM_TTL_SEC)

\* a take returned an entry exactly as old as the time to live
C3_Witness ==
    \E r \in take_log : r.found /\ r.hit /\ r.age = L2_PREWARM_TTL_SEC

\* C4: between operations the speculative cache holds at most the maximum
\* entry count.
C4_CapacityBound == Len(L2_PREWARM_CACHE) <= L2_PREWARM_MAX_ENTRIES

\* the table is full after a gc pass that evicted for capacity
C4_Witness ==
    /\ Len(L2_PREWARM_CACHE) = L2_PREWARM_MAX_ENTRIES
    /\ last_evicted # <<>>

\* C5: every signature in the In-Flight Set belongs to a prewarm between
\* its add and its exit; with no such prewarm the set is empty.
C5_InflightCleanup ==
    \A signature \in L2_PREWARM_INFLIGHT :
        \E t \in PrewarmTasks : Generating(t) /\ tasks[t].signature = signature

\* the set is empty after prewarms that cached, that got an uncacheable
\* result and that raised
C5_Witness ==
    /\ L2_PREWARM_INFLIGHT = {}
    /\ \E t \in PrewarmTasks : tasks[t].exit = "cached"
    /\ \E t \in PrewarmTasks : tasks[t].exit = "uncacheable"
    /\ \E t \in PrewarmTasks : tasks[t].exit = "raised"

\* the first n POSTs all ended in a timeout or a connectivity failure
TransportFailures(n) ==
    \A i \in 1..n : post_calls[i].kind \in {"timeout", "network"}

Returned == dm_pc \in {"returned", "done"}

\* C6: while fewer than max_attempts POSTs have all failed with a retriable
\* transport error the call goes on, and when POST N succeeds with text
\* after N-1 such failures the call returns (display_name, text) after
\* exactly N POSTs.
C6_RetryThenSuccess ==
    LET n == Len(post_calls)
    IN  /\ (n < max_attempts /\ TransportFailures(n)) => ~Returned
        /\ (n >= 1 /\ TransportFailures(n - 1)
                /\ StrTruthy(ResponseText(post_calls[n])))
            => (Returned
                /\ dm_ret = <<display_name, ResponseText(post_calls[n])>>)

\* the last allowed attempt succeeded after max_attempts - 1 failures
C6_Witness ==
    /\ Len(post_calls) = max_attempts
    /\ TransportFailures(max_attempts - 1)
    /\ Returned /\ StrTruthy(dm_ret[2])

\* the HTTP statuses the specification retries: 408, 409, 429 and any 5xx
ClaimedRetriableStatus(code) == code \in {408, 409, 429} \/ code \in 500..599

\* C7: when the first attempt fails with a non-retriable HTTP status the
\* call makes exactly 1 POST, sleeps 0 times and returns (display_name, None).
C7_FailFast ==
    (Len(post_calls) >= 1
        /\ post_calls[1].kind = "status"
        /\ ~ClaimedRetriableStatus(post_calls[1].code))
    => (Len(post_calls) = 1
        /\ sleep_calls = <<>>
        /\ Returned
        /\ dm_ret = <<display_name, None>>)

\* status 400 on the first attempt
C7_Witness ==
    /\ Len(post_calls) = 1
    /\ post_calls[1] = [kind |-> "status", code |-> 400]
    /\ Returned

\* every POST so far returned an empty completion
AllEmpty ==
    \A i \in 1..Len(post_calls) :
        post_calls[i].kind = "ok" /\ ~StrTruthy(ResponseText(post_calls[i]))

\* C8 as claimed: when every attempt returns an empty completion the call
\* makes exactly 6 POSTs, sleeps 5, 10, 20, 20, 20 seconds and returns
\* (display_name, None).
C8_EmptyRetriesCappedBackoff ==
    (Returned /\ AllEmpty)
        => (Len(post_calls) = 6
            /\ sleep_calls = <<5, 10, 20, 20, 20>>
            /\ dm_ret = <<display_name, None>>)

\* the failures the specification retries
ClaimedRetriable(e) ==
    \/ e.type \in {"TimeoutException", "NetworkError"}
    \/ e.type = "RuntimeError" /\ e.msg = "empty response"
    \/ e.type = "HTTPStatusError" /\ ClaimedRetriableStatus(e.status_code)

\* the latest attempt failed
LastAttemptFailed ==
    \/ dm_pc = "sleep"
    \/ Returned /\ dm_ret[2] = None

\* C9 as claimed: a failed attempt is classified retriable, and retried when
\* attempts remain, if and only if it is a timeout or connectivity failure,
\* an empty completion, or an HTTP status 408, 409, 429 or 5xx.
C9_ErrorClassification ==
    LastAttemptFailed
        => ((is_retriable <=> ClaimedRetriable(err))
            /\ (Len(post_calls) < max_attempts
                    => (dm_pc = "sleep" <=> ClaimedRetriable(err))))

AllSucceeded ==
    \A i \in 1..Len(post_calls) : StrTruthy(ResponseText(post_calls[i]))

AttributedSections == {"Gemini 3 Flash", "DeepSeek R1", "Kimi K2.5"}

\* C12 as claimed: when every model succeeds on its first attempt,
\* generate_deep_analysis makes exactly 3 POSTs and returns a text with an
\* attributed section for each of the three models.
C12_ThreeModelsConsulted ==
    (dm_pc = "done" /\ sleep_calls = <<>> /\ AllSucceeded)
        => (Len(post_calls) = 3
            /\ \A m \in AttributedSections :
                    \E i \in 1..Len(gda_ret.s) : gda_ret.s[i] = m)

CreateTasks == { t \in TaskIds : tasks[t].kind = "create_share" }
BackfillTasks == { t \in TaskIds : tasks[t].kind = "backfill" }
OnDemandTasks == { t \in TaskIds : tasks[t].kind = "analysis_l2" }

\* the calls of operation op that coroutine t made
CallsBy(t, op) == { r \in io_log : r.by = t /\ r.op = op }

\* the generation calls made for share id
Generations(id) ==
    { r \in io_log : r.op = "generate_deep_analysis" /\ r.share_id = id }

\* C13: when create_share finds an unexpired entry of its fortunes'
\* signature, the record it creates holds the cached text as analysis_l2,
\* no backfill is scheduled for the record and no generation call is ever
\* made for it.
C13_CacheHitOnCreate ==
    \A r \in take_log :
        (r.found /\ r.age <= L2_PREWARM_TTL_SEC)
            => LET t == r.by
                   id == tasks[t].share_id
                   X == tasks[r.src].analysis
               IN  /\ tasks[t].analysis = X
                   /\ tasks[t].pc = "done"
                        => (/\ shares[id].analysis_l2 = X
                            /\ CallsBy(t, "create_share") =
                                    { IoRecord(t, "create_share", id,
                                               Doc(tasks[t].fortunes, X)) }
                            /\ \A b \in BackfillTasks : tasks[b].share_id # id
                            /\ Generations(id) = {})

\* a share was created from a cached text and an on-demand request for it
\* was then answered from the record
C13_Witness ==
    \E r \in take_log : \E c \in OnDemandTasks :
        /\ r.hit /\ tasks[r.by].pc = "done"
        /\ tasks[c].share_id = tasks[r.by].share_id
        /\ tasks[c].exit = "cached"
        /\ tasks[c].analysis = tasks[r.src].analysis

\* a create_share request that was answered 200 after its take found nothing
Missed(t) ==
    /\ tasks[t].kind = "create_share" /\ tasks[t].exit = "200"
    /\ ~StrTruthy(tasks[t].analysis)

\* the backfill of share id has completed with the record holding a text
BackfillCompleted(id) ==
    \E b \in BackfillTasks :
        tasks[b].share_id = id /\ tasks[b].exit \in {"generated", "cached"}

\* the record of a missed creation was stored without analysis_l2
CreatedWithoutAnalysis(t) ==
    CallsBy(t, "create_share") =
        { IoRecord(t, "create_share", tasks[t].share_id,
                   Doc(tasks[t].fortunes, Missing)) }

\* an on-demand request t reads the record in this step and is answered
\* from the durable field
ReadsCached(t) ==
    (tasks[t].pc = "start" /\ tasks'[t].pc # "start")
        => L2Response(t)' =
                [status |-> 200,
                 analysis |-> shares[tasks[t].share_id].analysis_l2,
                 cached |-> TRUE]

\* C14 as claimed: on a miss the record is created without analysis_l2 and
\* a backfill is scheduled; once the backfill has completed the record
\* holds a non-empty analysis_l2 and an on-demand call that then reads the
\* record reports cached = true.
C14_MissBackfills ==
    /\ [](\A t \in TaskIds :
            Missed(t)
                => (/\ CreatedWithoutAnalysis(t)
                    /\ \E b \in BackfillTasks : tasks[b].share_id = tasks[t].share_id
                    /\ BackfillCompleted(tasks[t].share_id)
                        => StrTruthy(shares[tasks[t].share_id].analysis_l2)))
    /\ [][\A t \in OnDemandTasks :
            BackfillCompleted(tasks[t].share_id) => ReadsCached(t)]_vars

\* C14 amended: the backfill is scheduled on a miss if and only if
\* generation credentials are configured; the rest as claimed.
C14_MissBackfillsWithToken ==
    /\ [](\A t \in TaskIds :
            Missed(t)
                => (/\ CreatedWithoutAnalysis(t)
                    /\ AI_TOKEN <=>
                        (\E b \in BackfillTasks : tasks[b].share_id = tasks[t].share_id)
                    /\ BackfillCompleted(tasks[t].share_id)
                        => StrTruthy(shares[tasks[t].share_id].analysis_l2)))
    /\ [][\A t \in OnDemandTasks :
            BackfillCompleted(tasks[t].share_id) => ReadsCached(t)]_vars

\* a miss, its backfill generated and updated, and a later on-demand call
\* was answered with the backfill's text and cached = true
C14_Witness ==
    \E t \in CreateTasks : \E b \in BackfillTasks : \E c \in OnDemandTasks :
        /\ Missed(t)
        /\ tasks[b].share_id = tasks[t].share_id /\ tasks[b].exit = "generated"
        /\ tasks[c].share_id = tasks[t].share_id
        /\ L2Response(c) = [status |-> 200, analysis |-> tasks[b].analysis,
                            cached |-> TRUE]

\* request a was answered 200 and request c for the same share reads the
\* record in this step
SecondCallReads(a, c) ==
    /\ a # c
    /\ tasks[a].share_id = tasks[c].share_id
    /\ tasks[a].pc = "done" /\ L2Response(a).status = 200
    /\ tasks[c].pc = "start" /\ tasks'[c].pc # "start"

\* the step makes no generation call and no store write
NoCallNoWrite ==
    /\ shares' = shares
    /\ \A r \in io_log' \ io_log : r.op = "get_share"

\* C15 as claimed: an on-demand call that follows an answered call for the
\* same share finds analysis_l2 on the record, makes no upstream call and no
\* store write, and reports cached = true with the first call's text.
C15_SecondCallIdentical ==
    [][\A a, c \in OnDemandTasks :
        SecondCallReads(a, c)
            => (/\ NoCallNoWrite
                /\ L2Response(c)' =
                        [status |-> 200, analysis |-> L2Response(a).analysis,
                         cached |-> TRUE])]_vars

\* C15 amended: the second call reports cached = true with the text the
\* record holds, which is the first call's text when at most one generation
\* was ever started for the share.
C15_SecondCallCached ==
    [][\A a, c \in OnDemandTasks :
        SecondCallReads(a, c)
            => (/\ NoCallNoWrite
                /\ L2Response(c)' =
                        [status |-> 200,
                         analysis |-> shares[tasks[c].share_id].analysis_l2,
                         cached |-> TRUE]
                /\ Cardinality(Generations(tasks[c].share_id)) <= 1
                    => L2Response(c)'.analysis = L2Response(a).analysis)]_vars

\* a call generated and was answered, and a call after it was answered
\* with the same text and cached = true; one generation was made
C15_Witness ==
    \E a, c \in OnDemandTasks :
        /\ tasks[a].share_id = tasks[c].share_id
        /\ tasks[a].exit = "generated" /\ tasks[c].exit = "cached"
        /\ L2Response(c).analysis = L2Response(a).analysis
        /\ L2Response(c).cached
        /\ Cardinality(Generations(tasks[a].share_id)) = 1

\* C16: an on-demand request made without credentials or without storage is
\* answered 503 and makes no storage or generation call; a request for an id
\* that has no record is answered 404 otherwise.
C16_UnavailableOrNotFound ==
    \A t \in OnDemandTasks :
        /\ (~AI_TOKEN \/ ~storage_available)
            => (/\ tasks[t].pc = "done"
                /\ L2Response(t).status = 503
                /\ \A r \in io_log : r.by # t)
        /\ (AI_TOKEN /\ storage_available /\ tasks[t].pc = "done"
                /\ shares[tasks[t].share_id] = Missing)
            => L2Response(t).status = 404

\* a request was answered 503 because the storage is not configured
C16_Witness ==
    \E t \in OnDemandTasks :
        /\ AI_TOKEN /\ ~storage_available
        /\ L2Response(t).status = 503

\* the record has fortunes and no analysis_l2
NeedsGeneration(data) ==
    /\ data # Missing
    /\ ~StrTruthy(data.analysis_l2)
    /\ DictTruthy(_normalize_fortunes_payload(data))

\* C17: an on-demand request that reads a record with fortunes and without
\* analysis_l2 calls generation; when it is answered it has called
\* generation once, made one store update with the payload
\* {analysis_l2: text}, and returns that text with cached = false.
C17_GenerateUpdateOnce ==
    /\ [][\A t \in OnDemandTasks :
            (tasks[t].pc = "start" /\ tasks'[t].pc # "start"
                    /\ NeedsGeneration(shares[tasks[t].share_id]))
                => (/\ Generating(t)'
                    /\ Cardinality(CallsBy(t, "generate_deep_analysis")') = 1)]_vars
    /\ [](\A t \in OnDemandTasks :
            (CallsBy(t, "generate_deep_analysis") # {}
                    /\ tasks[t].pc = "done" /\ tasks[t].exit # "raised")
                => (/\ Cardinality(CallsBy(t, "generate_deep_analysis")) = 1
                    /\ CallsBy(t, "update_share") =
                            { IoRecord(t, "update_share", tasks[t].share_id,
                                       [py |-> "dict", fortunes |-> Missing,
                                        analysis_l2 |-> tasks[t].analysis]) }
                    /\ StrTruthy(tasks[t].analysis)
                    /\ L2Response(t) =
                            [status |-> 200, analysis |-> tasks[t].analysis,
                             cached |-> FALSE]))

\* a request generated a provider text, stored it and was answered
C17_Witness ==
    \E t \in OnDemandTasks :
        /\ tasks[t].exit = "generated"
        /\ ~ContainsMark(tasks[t].analysis)
        /\ shares[tasks[t].share_id].analysis_l2 = tasks[t].analysis
        /\ shares[tasks[t].share_id].fortunes = tasks[t].fortunes

\* what get_share of the configured backend returns for the id
StoredDoc(share_id) ==
    IF storage_backend = "postgres" THEN PgSelect(pg_rows, share_id)
    ELSE FsGet(storage_available, fs_docs, share_id)

\* the step is a call of op
Calls(op) == st_call' # None /\ st_call'.op = op

\* C18: update_share of the relational backend on an id that was never
\* created raises KeyError and leaves every row of the table unchanged.
C18_UpdateUnknownId ==
    [][(Calls("update_share") /\ st_call'.backend = "postgres"
            /\ st_created[st_call'.share_id] = Missing)
        => (st_call'.result = Raised("KeyError") /\ pg_rows' = pg_rows)]_vars

\* KeyError for an id without row while the table holds another row
C18_Witness ==
    /\ st_call # None
    /\ st_call.backend = "postgres" /\ st_call.op = "update_share"
    /\ st_call.result = Raised("KeyError")
    /\ st_created[st_call.share_id] = Missing
    /\ \E id \in StoreIds : pg_rows[id] # NoRow

\* C19 as claimed: after a successful update(id, U), get(id) returns the
\* document it returned before with every top-level key of U set to U's
\* value and the other keys unchanged, and get of every other id returns
\* what it returned before.
C19_ShallowMerge ==
    [][\A id \in StoreIds : \A U \in StoreUpdates :
        (Calls("update_share") /\ st_call'.result = None
                /\ st_call'.share_id = id /\ st_call'.arg = U)
            => (/\ StoredDoc(id)' = MergeInto(StoredDoc(id), U)
                /\ \A other \in StoreIds \ {id} :
                        StoredDoc(other)' = StoredDoc(other))]_vars

\* the value get_share returns for a stored value: the relational backend
\* returns a datetime as the string of its ISO format
ReadsBackAs(v) ==
    IF storage_backend = "postgres" /\ v # Missing /\ v.py = "datetime"
    THEN Str(<<v.iso>>)
    ELSE v

\* a document or updates dict as get_share returns its top-level values
DocReadsBackAs(d) ==
    [k \in DOMAIN d |-> IF k = "py" THEN d[k] ELSE ReadsBackAs(d[k])]

\* C19 amended: as claimed, with a datetime value of U read back from the
\* relational backend as its ISO string.
C19_ShallowMergeAsRead ==
    [][\A id \in StoreIds : \A U \in StoreUpdates :
        (Calls("update_share") /\ st_call'.result = None
                /\ st_call'.share_id = id /\ st_call'.arg = U)
            => (/\ StoredDoc(id)' = MergeInto(StoredDoc(id), DocReadsBackAs(U))
                /\ \A other \in StoreIds \ {id} :
                        StoredDoc(other)' = StoredDoc(other))]_vars

\* an update replaced email_sent_at and kept fortunes and analysis_l2 of the
\* document, while another record exists
C19_Witness ==
    /\ st_call # None
    /\ st_call.op = "update_share" /\ st_call.result = None
    /\ st_call.arg = StoreDoc(Missing, Missing, Datetime("t2"))
    /\ StoredDoc(st_call.share_id).fortunes = FaceOnly
    /\ StoredDoc(st_call.share_id).analysis_l2 = Str(<<"old">>)
    /\ StoredDoc(st_call.share_id).email_sent_at = ReadsBackAs(Datetime("t2"))
    /\ \E other \in StoreIds \ {st_call.share_id} : StoredDoc(other) # None

\* C20 as claimed: get_share of an id returns the document D of its
\* create_share as long as the id was not updated, and None for an id that
\* was never created.
C20_RoundTrip ==
    (st_call # None /\ st_call.op = "get_share")
        => LET D == st_created[st_call.share_id]
           IN  /\ D = Missing => st_call.result = None
               /\ D \notin {Missing, Updated} => st_call.result = D

\* C20 amended: as claimed, with a datetime value of D read back from the
\* relational backend as its ISO string.
C20_RoundTripAsRead ==
    (st_call # None /\ st_call.op = "get_share")
        => LET D == st_created[st_call.share_id]
           IN  /\ D = Missing => st_call.result = None
               /\ D \notin {Missing, Updated}
                    => st_call.result = DocReadsBackAs(D)

\* get_share returned the document of create_share, nested fortunes
\* included, while get_share of a never-created id would return None
C20_Witness ==
    /\ st_call # None
    /\ st_call.op = "get_share"
    /\ st_created[st_call.share_id] = StoreDoc(FaceOnly, Str(<<"old">>), Datetime("t1"))
    /\ st_call.result.fortunes = FaceOnly
    /\ st_call.result.analysis_l2 = Str(<<"old">>)
    /\ \E other \in StoreIds : st_created[other] = Missing /\ StoredDoc(other) = None

\* the kind of what a storage call returned or raised
ResultKind(result) ==
    IF ~IsRaised(result) THEN "returned"
    ELSE IF result.type \in {"KeyError", "NotFound"} THEN "not-found"
    ELSE result.type

\* C21 as claimed: after the same sequence of calls both backends returned
\* the same result or the same kind of error to the latest call and hold the
\* same documents.
C21_BackendsInterchangeable ==
    st_call # None
        => (/\ ResultKind(st_call.result[1]) = ResultKind(st_call.result[2])
            /\ ResultKind(st_call.result[1]) = "returned"
                => st_call.result[1] = st_call.result[2]
            /\ \A id \in StoreIds :
                    PgSelect(pg_rows, id) = FsGet(storage_available, fs_docs, id))

\* a step in which get_share_storage or reset_share_storage_from_env built a
\* backend from the environment
BuildStep == env_call' # env_call /\ env_call'.built

\* the server lets PostgresShareStorage connect and find or create its table
RelationalUsable(server) ==
    server \in {"ok", "permission denied for schema, table exists"}

AutoBackends == {Str(<<"auto">>), EmptyStr}

\* the build of this step ended with the backend of the given class selected
Selects(class) ==
    ~IsRaised(env_call'.result) /\ _share_storage'.py = class

\* the first two sentences of C22: 'auto' with a URL selects the relational
\* backend if it can be constructed and the document backend otherwise;
\* 'firebase', or 'auto' without URL, selects the document backend
SelectionRules ==
    LET backend == BackendOf(os_environ)
        database_url == DatabaseUrlOf(os_environ)
    IN  /\ (backend \in AutoBackends /\ database_url # EmptyStr)
                => Selects(IF RelationalUsable(pg_server)
                           THEN "PostgresShareStorage"
                           ELSE "FirebaseShareStorage")
        /\ (\/ backend = Str(<<"firebase">>)
            \/ (backend \in AutoBackends /\ database_url = EmptyStr))
                => Selects("FirebaseShareStorage")

\* C22 as claimed: the selection rules hold, and under every supported
\* backend setting a relational backend that cannot be reached never
\* prevents a storage backend from being selected.
C22_FailureNeverPreventsSelection ==
    [][BuildStep =>
        /\ SelectionRules
        /\ (/\ BackendOf(os_environ) \in
                    AutoBackends \cup {Str(<<"firebase">>), Str(<<"postgres">>)}
            /\ DatabaseUrlOf(os_environ) # EmptyStr
            /\ ~RelationalUsable(pg_server))
                => ~IsRaised(env_call'.result)]_vars

\* C22 (amended): the selection rules hold and a relational backend that
\* cannot be reached never prevents a selection under 'auto' or 'firebase';
\* under 'postgres' the failure is raised and the global keeps its value.
C22_FallbackUnderAuto ==
    [][BuildStep =>
        /\ SelectionRules
        /\ (/\ BackendOf(os_environ) \in AutoBackends \cup {Str(<<"firebase">>)}
            /\ ~RelationalUsable(pg_server))
                => ~IsRaised(env_call'.result)
        /\ (/\ BackendOf(os_environ) = Str(<<"postgres">>)
            /\ ~RelationalUsable(pg_server))
                => (IsRaised(env_call'.result) /\ _share_storage' = _share_storage)]_vars

\* C22 witness: under 'auto' with a URL the relational backend was tried,
\* failed, and the document backend is selected
C22_Witness ==
    /\ env_call # None /\ env_call.built /\ env_call.connects > 0
    /\ BackendOf(os_environ) \in AutoBackends
    /\ DatabaseUrlOf(os_environ) # EmptyStr
    /\ _share_storage = FirebaseShareStorage

\* C23 as claimed: the URL a PostgresShareStorage connects with has sslmode
\* 'require' and, for a host that begins with 'ep-', the options value
\* endpoint=<first host label>.
C23_SslAndEndpoint ==
    _share_storage.py = "PostgresShareStorage"
        => LET url == _share_storage._database_url
               host == Hostname(url.netloc)
           IN  /\ ItemGet(url.query, "sslmode", <<>>) = <<"require">>
               /\ (StartsWithEp(host)
                    => ItemGet(url.query, "options", <<>>)
                            = <<"endpoint=", host[1]>>)

\* the backfill tasks of share id
BackfillsOf(id) == { b \in BackfillTasks : tasks[b].share_id = id }

\* create_share t gets the answer of storage.create_share in this step and
\* returns the id
ReturnsId(t) ==
    /\ tasks[t].kind = "create_share" /\ tasks[t].pc = "persisting"
    /\ tasks'[t].exit = "200"

\* C24: create_share never waits for deep-analysis generation: it makes no
\* upstream generation call, and at the step in which it returns the id no
\* generation call for the new record has been made and every backfill of
\* the record has yet to start.
C24_CreateNeverWaits ==
    /\ [](\A t \in CreateTasks :
            ~Generating(t) /\ CallsBy(t, "generate_deep_analysis") = {})
    /\ [][\A t \in TaskIds :
            ReturnsId(t)
                => (/\ Generations(tasks[t].share_id)' = {}
                    /\ \A b \in BackfillsOf(tasks[t].share_id)' :
                            tasks'[b].pc = "start")]_vars

\* C24 witness: create_share has returned the id while the backfill it
\* scheduled has not started
C24_Witness ==
    \E t \in CreateTasks :
        /\ tasks[t].pc = "done" /\ tasks[t].exit = "200"
        /\ \E b \in BackfillsOf(tasks[t].share_id) : tasks[b].pc = "start"

BackgroundTasks == { t \in TaskIds : tasks[t].kind \in {"prewarm", "backfill"} }

\* coroutine t meets an exception in this step
Fails(t) == tasks[t].exit # "raised" /\ tasks'[t].exit = "raised"

PersistFails(t) ==
    /\ tasks[t].kind = "create_share" /\ tasks[t].pc = "persisting"
    /\ CallsBy(t, "create_share raised")' # {}

\* C28: if storage.create_share raises, create_share answers 502 without an
\* id, no record is stored and no backfill is scheduled.
C28_PersistFailure ==
    /\ [][\A t \in TaskIds :
            PersistFails(t)
                => (/\ tasks'[t].pc = "done"
                    /\ CreateShareResponse(t)' =
                            [status |-> 502,
                             detail |-> "Failed to persist share data"]
                    /\ shares' = shares
                    /\ Len(tasks') = Len(tasks))]_vars
    /\ [](\A t \in CreateTasks :
            CallsBy(t, "create_share raised") # {}
                => (/\ BackfillsOf(tasks[t].share_id) = {}
                    /\ shares[tasks[t].share_id] = Missing
                    /\ "id" \notin DOMAIN CreateShareResponse(t)))

\* C28 witness: create_share failed to persist a record for which nothing
\* was prewarmed, with credentials configured
C28_Witness ==
    \E t \in CreateTasks :
        /\ tasks[t].pc = "done" /\ tasks[t].exit = "502"
        /\ AI_TOKEN /\ ~StrTruthy(tasks[t].analysis)

\* fortunes without short-reading content: no fortunes, or no grok reading
NoContent(fortunes) ==
    ~DictTruthy(fortunes) \/ DictGet(fortunes, "grok").py # "dict"

\* a create_share request arrives in this step and reaches its take
TakeStep ==
    /\ Len(tasks') = Len(tasks) + 1
    /\ tasks'[Len(tasks')].kind = "create_share"
    /\ tasks'[Len(tasks')].pc = "persisting"

\* C27 as claimed: fortunes without content have no signature, so the take
\* of a create_share with such fortunes returns nothing and leaves the
\* speculative cache untouched.
C27_NoContentNoTouch ==
    [][(TakeStep /\ NoContent(tasks'[Len(tasks')].fortunes))
        => (/\ ~StrTruthy(tasks'[Len(tasks')].analysis)
            /\ L2_PREWARM_CACHE' = L2_PREWARM_CACHE)]_vars

\* field key of the grok reading of a payload, an absent key read as ""
FieldOf(input, key) == ItemGet(DictOfPairs(input.grok), key, "")

\* the two payloads agree on face, career and blessing
SameContent(a, b) ==
    \A key \in {"face", "career", "blessing"} : FieldOf(a, key) = FieldOf(b, key)

\* C26: two fortunes payloads have the same signature if and only if their
\* grok readings agree on face, career and blessing, whatever the order of
\* the keys, the other fields of the reading and the other providers.
C26_SignatureOfContent ==
    (fn_call # None /\ fn_call.fn = "_fortunes_signature")
        => (SameContent(fn_call.args[1], fn_call.args[2])
                <=> fn_call.result[1] = fn_call.result[2])

\* C26 witness: two payloads that agree on the three fields and differ in
\* key order, source and other provider got the same signature
C26_Witness ==
    /\ fn_call # None /\ fn_call.fn = "_fortunes_signature"
    /\ SameContent(fn_call.args[1], fn_call.args[2])
    /\ fn_call.args[1].grok[1][1] # fn_call.args[2].grok[1][1]
    /\ fn_call.args[1].gemini # fn_call.args[2].gemini
    /\ fn_call.result[1] = fn_call.result[2]

\* the latest call encoded and decoded a visualization payload
VisualizationCalled == fn_call # None /\ fn_call.fn = "visualization"

\* the stored form of the latest call holds each point as an {x, y} mapping
StoredAsMappings ==
    LET sent == fn_call.args[1].landmarks
        stored == fn_call.result.encoded.landmarks
    IN  /\ Len(stored) = Len(sent)
        /\ \A i \in 1..Len(stored) : DOMAIN stored[i] = {"py", "x", "y"}

\* C29 as claimed: decoding the encoded payload returns the same list of
\* ordered pairs, and the stored form holds each point as an {x, y} mapping.
C29_RoundTrip ==
    VisualizationCalled
        => (/\ fn_call.result.decoded.landmarks = fn_call.args[1].landmarks
            /\ StoredAsMappings)

\* the multiple of 10 millionths nearest to a number of millionths
Nearest(micro) ==
    CHOOSE m \in (micro - 5)..(micro + 5) : m % 10 = 0

\* a coordinate as the storage holds it: a finite float to five decimals, a
\* NaN or an infinity as null, anything else as it is
AsStored(c) ==
    IF c.py # "float" THEN c
    ELSE IF c = NonFinite THEN None
    ELSE Float(Nearest(c.micro))

\* C29 amended: decoding the encoded payload returns the list of ordered
\* pairs with each coordinate as the storage holds it, and the stored form
\* holds each point as an {x, y} mapping of those coordinates.
C29_RoundTripAsStored ==
    VisualizationCalled
        => LET sent == fn_call.args[1].landmarks
               stored == fn_call.result.encoded.landmarks
               back == fn_call.result.decoded.landmarks
           IN  /\ StoredAsMappings
               /\ Len(back) = Len(sent)
               /\ \A i \in 1..Len(sent) :
                    /\ back[i] = <<AsStored(sent[i][1]), AsStored(sent[i][2])>>
                    /\ stored[i].x = back[i][1] /\ stored[i].y = back[i][2]

\* C29 witness: a list of two points, one with a coordinate of six decimals,
\* went through the codec
C29_Witness ==
    /\ VisualizationCalled
    /\ Len(fn_call.args[1].landmarks) = 2
    /\ fn_call.args[1].landmarks[1][1] = Float(123456)
    /\ fn_call.result.decoded.landmarks[1][1] = Float(123460)
    /\ fn_call.result.decoded.landmarks[2] = <<Float(100000), PyInt(1)>>

\* a prewarm stores its text and runs the gc pass in this step
GcStep(t) ==
    tasks[t].kind = "prewarm" /\ Generating(t) /\ tasks'[t].exit = "cached"

\* the number of entries the gc pass of prewarm t finds after it has removed
\* the expired ones: the unexpired keys of the table and the key just stored
SizeBeforeEviction(t) ==
    Cardinality({ L2_PREWARM_CACHE[i].key :
                    i \in { j \in 1..Len(L2_PREWARM_CACHE) :
                            now - L2_PREWARM_CACHE[j].ts <= L2_PREWARM_TTL_SEC } }
                \cup {tasks[t].signature})

StartsInflight(t) ==
    /\ tasks[t].kind = "prewarm" /\ tasks[t].pc = "start"
    /\ tasks'[t].pc # "start"
    /\ _fortunes_signature(tasks[t].fortunes) \in L2_PREWARM_INFLIGHT

\* C31: a prewarm invoked for a signature that is in the in-flight set
\* returns at once: it makes no upstream call and leaves the cache and the
\* in-flight set, the marker of the running prewarm included, as they are.
C31_InflightNoOp ==
    [][\A t \in TaskIds :
        StartsInflight(t)
            => (/\ tasks'[t].pc = "done"
                /\ tasks'[t].exit = "skipped"
                /\ L2_PREWARM_CACHE' = L2_PREWARM_CACHE
                /\ L2_PREWARM_INFLIGHT' = L2_PREWARM_INFLIGHT)]_vars

\* C31 witness: a prewarm returned at once while another prewarm of the
\* same signature is generating and still owns the marker
C31_Witness ==
    \E t, u \in PrewarmTasks :
        /\ tasks[t].exit = "skipped"
        /\ Generating(u)
        /\ tasks[u].signature = _fortunes_signature(tasks[t].fortunes)
        /\ tasks[u].signature \in L2_PREWARM_INFLIGHT

\* _call_deep_model was entered: it posted or it sleeps
Started == post_calls # <<>> \/ dm_pc = "sleep"

\* the values _call_deep_model may return
CallDeepModelReturns ==
    { <<display_name, None>> } \cup
    { <<display_name, ResponseText(o)>> :
        o \in { x \in PostOutcomes : StrTruthy(ResponseText(x)) } }

\* the counts of C32 in every state of a call
BoundedCallsAndSleeps ==
    /\ Len(post_calls) <= max_attempts
    /\ Returned => /\ dm_ret \in CallDeepModelReturns
                   /\ post_calls # <<>>
                   /\ Len(sleep_calls) = Len(post_calls) - 1
    /\ dm_pc = "post" => Len(sleep_calls) = Len(post_calls)
    /\ dm_pc = "sleep" => /\ Len(sleep_calls) = Len(post_calls)
                          /\ Len(post_calls) < max_attempts
                          /\ is_retriable
                          /\ ~StrTruthy(ResponseText(post_calls[Len(post_calls)]))

\* C32: _call_deep_model ends, once started, by returning a pair
\* (display_name, text or None); it makes at most max_attempts POSTs, has
\* slept once less than it posted when it returns, and sleeps neither after
\* the last attempt nor after a failure that is not retriable.
C32_TerminatesWithinAttempts ==
    /\ []BoundedCallsAndSleeps
    /\ Started ~> Returned

\* C32 witness: the call returned None after max_attempts POSTs and
\* max_attempts - 1 sleeps
C32_Witness ==
    /\ Returned
    /\ dm_ret = <<display_name, None>>
    /\ Len(post_calls) = max_attempts
    /\ Len(sleep_calls) = max_attempts - 1

\* the take of create_share t returned the text of an unexpired entry
TookEntry(t) ==
    \E r \in take_log : r.by = t /\ r.hit

\* a text that is neither empty nor a failure message
Sound(text) ==
    /\ text # EmptyStr
    /\ ~ContainsMark(text)
    /\ text # FALLBACK_TEXT

\* what _take_prewarmed_l2_analysis would return now for the fortunes of t
Served(t) ==
    _take_prewarmed_l2_analysis(L2_PREWARM_CACHE, tasks[t].fortunes, now)[1]

\* C33: no entry of the speculative cache holds an empty text or a text
\* with the failure marker, so the fallback message of generate_deep_analysis
\* is never in the cache and never what the take of a create_share returned.
C33_CacheHoldsNoFailure ==
    /\ \A i \in 1..Len(L2_PREWARM_CACHE) : Sound(L2_PREWARM_CACHE[i].analysis)
    /\ \A t \in CreateTasks :
            tasks[t].analysis # None => Sound(tasks[t].analysis)

\* C33 witness: a prewarm got a text it did not store, and the take of a
\* create_share returned the text of another prewarm
C33_Witness ==
    /\ \E t \in PrewarmTasks : tasks[t].exit = "uncacheable"
    /\ \E t \in CreateTasks : TookEntry(t) /\ StrTruthy(tasks[t].analysis)

\* backfill or on-demand coroutine t reads its record in this step and goes
\* on to the upstream generation call
StartsGenerating(t) ==
    /\ tasks[t].kind \in {"backfill", "analysis_l2"}
    /\ tasks[t].pc = "start"
    /\ Generating(t)'

\* the record of t exists and its durable analysis field holds no text
DurableMiss(t) ==
    /\ shares[tasks[t].share_id] # Missing
    /\ ~StrTruthy(shares[tasks[t].share_id].analysis_l2)

\* the speculative cache has nothing to serve for the fortunes of the
\* record of t
SpeculativeMiss(t) ==
    _take_prewarmed_l2_analysis(
        L2_PREWARM_CACHE,
        _normalize_fortunes_payload(shares[tasks[t].share_id]), now)[1] = None

\* C34 as claimed: backfill and on-demand generate only after both the
\* durable analysis field of the record and the speculative cache for the
\* record's fortunes missed.
C34_GeneratesAfterBothMiss ==
    [][\A t \in TaskIds :
        StartsGenerating(t) => (DurableMiss(t) /\ SpeculativeMiss(t))]_vars

\* C34 amended: backfill and on-demand generate only after they read the
\* record and its durable analysis field missed; they neither read nor
\* change the speculative cache, which only create_share consults.
C34_GeneratesAfterDurableMiss ==
    [][\A t \in TaskIds :
        StartsGenerating(t)
            => (/\ DurableMiss(t)
                /\ CallsBy(t, "get_share")' # {}
                /\ L2_PREWARM_CACHE' = L2_PREWARM_CACHE)]_vars

\* C34 witness: a backfill or on-demand call generates for fortunes the
\* speculative cache could serve
C34_Witness ==
    \E t \in BackfillTasks \cup OnDemandTasks :
        /\ Generating(t)
        /\ CallsBy(t, "get_share") # {}
        /\ Served(t) # None

\* a call of get_share_storage that follows another call of it
LaterGetStep ==
    /\ env_call # None /\ env_call.op = "get_share_storage"
    /\ env_call' # env_call /\ env_call'.op = "get_share_storage"

\* the call returns what the call before it returned and neither constructs
\* a backend nor connects
ReturnsSameInstance ==
    /\ ~env_call'.built
    /\ env_call'.connects = 0
    /\ env_call'.result = env_call.result
    /\ _share_storage' = _share_storage

\* C35 as claimed: every call of get_share_storage after the first returns
\* the same instance without construction or connection, also when the
\* first call failed.
C35_ResolvedOnce ==
    [][LaterGetStep => ReturnsSameInstance]_vars

\* C35 amended: a call of get_share_storage that follows one which returned
\* a backend returns that instance without construction or connection; a
\* call that follows one which raised constructs again.
C35_ResolvedOnceBuilt ==
    [][LaterGetStep
        => IF IsRaised(env_call.result)
           THEN env_call'.built
           ELSE ReturnsSameInstance]_vars

\* C35 witness: the third call returned the relational backend of the
\* first without constructing
C35_Witness ==
    /\ env_call # None /\ env_call.n = MaxEnvCalls
    /\ env_call.op = "get_share_storage"
    /\ ~env_call.built
    /\ env_call.result = _share_storage
    /\ _share_storage.py = "PostgresShareStorage"

\* a call constructs the relational backend: it opens a connection
RelationalBuildStep == BuildStep /\ env_call'.connects >= 1

\* the table of the shares is in the catalog of the server
TableExists(server) ==
    server \in {"ok", "permission denied for schema, table exists",
                "statement timeout, table exists"}

\* the construction of the relational backend failed with the error of the
\* table creation, which a selection under 'postgres' passes on
FailsWithCreationError ==
    /\ ~Selects("PostgresShareStorage")
    /\ BackendOf(os_environ) = Str(<<"postgres">>)
            => env_call'.result = CreateTableError(pg_server)

\* C36 as claimed: when the table creation fails the construction of the
\* relational backend succeeds if the table is in the catalog and fails
\* with the creation error if it is not.
C36_SucceedsIfTableExists ==
    [][(RelationalBuildStep /\ CreateTableError(pg_server) # None)
        => IF TableExists(pg_server)
           THEN Selects("PostgresShareStorage")
           ELSE FailsWithCreationError]_vars

\* C36 amended: the catalog is looked up only when the creation failed with
\* "permission denied for schema"; then the construction succeeds if the
\* table is in the catalog; after any other creation failure, and when the
\* lookup does not find the table, it fails with the creation error.
C36_SucceedsIfDeniedAndTableExists ==
    [][(RelationalBuildStep /\ CreateTableError(pg_server) # None)
        => IF pg_server \in {"permission denied for schema, table exists",
                             "permission denied for schema, no table"}
           THEN /\ env_call'.connects = 2
                /\ IF TableExists(pg_server)
                   THEN Selects("PostgresShareStorage")
                   ELSE FailsWithCreationError
           ELSE /\ env_call'.connects = 1
                /\ FailsWithCreationError]_vars

\* C36 witness: the creation was denied, the lookup found the table and the
\* relational backend was constructed
C36_Witness ==
    /\ env_call # None /\ env_call.built /\ env_call.connects = 2
    /\ ~IsRaised(env_call.result)
    /\ pg_server = "permission denied for schema, table exists"
    /\ _share_storage.py = "PostgresShareStorage"

\* C37 as claimed: when create_share fails to persist the record, the
\* entry its take found for the signature of the request is in the
\* speculative cache again, so a retried create_share with the same fortunes
\* gets the text.
C37_CacheKeptOnPersistFailure ==
    [][\A t \in TaskIds :
        (PersistFails(t) /\ TookEntry(t))
            => Served(t)' = tasks[t].analysis]_vars

\* the record of id holds a non-empty analysis
HasAnalysis(id) ==
    shares[id] # Missing /\ StrTruthy(shares[id].analysis_l2)

\* C38 as claimed: once analysis_l2 of a record holds a non-empty text, no
\* step of a backfill or of an on-demand call replaces it with another text.
C38_AnalysisWriteOnce ==
    [][\A id \in ShareIds :
        HasAnalysis(id)
            => (/\ shares'[id] # Missing
                /\ shares'[id].analysis_l2 = shares[id].analysis_l2)]_vars

\* backfill or on-demand coroutine t is past its read of record id and
\* has not written yet
PastRead(t, id) ==
    /\ tasks[t].kind \in {"backfill", "analysis_l2"}
    /\ tasks[t].share_id = id
    /\ tasks[t].pc \in {"generating", "updating"}

\* C38 amended: once analysis_l2 holds a non-empty text, a coroutine that
\* reads the record returns that text and neither generates nor writes; the
\* text is replaced only by the update of a coroutine that had read the
\* record before, and then by the text that coroutine generated (last write
\* wins).
C38_ReplacedOnlyByEarlierReaders ==
    [][\A id \in ShareIds :
        HasAnalysis(id)
            => (/\ shares'[id] # Missing
                /\ \A t \in 1..Len(tasks') :
                        PastRead(t, id)' => (t \in TaskIds /\ PastRead(t, id))
                /\ shares'[id].analysis_l2 # shares[id].analysis_l2
                    => \E t \in TaskIds :
                            /\ PastRead(t, id) /\ tasks'[t].pc = "done"
                            /\ shares'[id].analysis_l2 = tasks[t].analysis)]_vars

\* C38 witness: two coroutines wrote analysis_l2 of one record
C38_Witness ==
    \E a, b \in io_log :
        /\ a.op = "update_share" /\ b.op = "update_share"
        /\ a.share_id = b.share_id /\ a.by # b.by
        /\ HasAnalysis(a.share_id)

\* C39 as claimed: analysis_l2 of a record is never the fallback message of
\* generate_deep_analysis.
C39_NoFallbackInRecord ==
    \A id \in ShareIds :
        shares[id] # Missing => shares[id].analysis_l2 # FALLBACK_TEXT

\* on-demand call t reads its record in this step, with the token and the
\* storage configured, and the record exists
ReadsExisting(t) ==
    /\ tasks[t].kind = "analysis_l2"
    /\ tasks[t].pc = "start" /\ tasks'[t].pc # "start"
    /\ AI_TOKEN /\ storage_available
    /\ shares[tasks[t].share_id] # Missing

\* C40 as claimed: an on-demand call that finds the record of its id is
\* never answered not-found, whatever the fortunes and analysis_l2 of the
\* record.
C40_NeverNotFoundForExisting ==
    [][\A t \in TaskIds :
        ReadsExisting(t)
            => ~(tasks'[t].pc = "done" /\ L2Response(t)'.status = 404)]_vars

====
